---- MODULE Spec2Model ----
(***************************************************************************)
(* A model of the HGVC deal finder (henryhjna/hgvc-finder):                *)
(*   - the fetch resilience layer      (scrapers/base.py)                  *)
(*   - the three source extractors     (scrapers/*_scraper.py)             *)
(*   - scrape-run orchestration and the listing store                      *)
(*                                     (app/pages/3_data_management.py,    *)
(*                                      utils/database.py)                 *)
(*   - the reference-fee import        (import_mf_csv)                     *)
(*   - resort-name normalisation       (utils/matching.py)                 *)
(* Each component has its own specification over the shared variables; a   *)
(* component that a specification does not exercise stays in its initial   *)
(* state.                                                                  *)
(***************************************************************************)
EXTENDS Integers, Sequences, FiniteSets, TLC

VARIABLES
    \* ---- _fetch_with_retry (scrapers/base.py) ----
    fpc,        \* position: "idle", "loop", "get", "backoff", "returned", "raised"
    attempt,    \* the loop variable of `for attempt in range(MAX_RETRIES)`
    outcomes,   \* upstream outcome of each request issued so far
    delays,     \* the rate-limit delays slept so far (seconds)
    sleeps,     \* the retry sleeps so far: [kind, attempt, seconds]
    fres        \* the value returned: None or Body(text); NotYet before

fetchVars == <<fpc, attempt, outcomes, delays, sleeps, fres>>

VARIABLES
    \* ---- scrape_listings of one extractor (scrapers/*_scraper.py) ----
    ext,          \* the extractor: "tug", "redweek" or "smtsn"
    filters,      \* the filters argument: [price_min, price_max], 0 = not given
    envelope,     \* the inputs this run draws from: [pages, cards, pool]
    spc,          \* position: "start", "page", "cards", "done"
    resorts,      \* number of pages the run is to visit
    pagesIn,      \* what was served so far: per page [html, cards]
    all_listings, \* the list being built
    sres          \* the list returned; NotYet before

scrapeVars == <<ext, filters, envelope, spc, resorts, pagesIn, all_listings, sres>>

VARIABLES
    \* ---- the listing store and run_scraping (utils/database.py,
    \*      app/pages/3_data_management.py) ----
    listings_db,   \* table listings as committed: what another session reads
    logs_db,       \* table scrape_logs as committed
    sess_rows,     \* table listings as the run's session sees it (its
                   \* transaction: committed rows plus its flushed changes)
    pending,       \* objects added to the session and not yet flushed
    rpc,           \* position in run_scraping: "idle", "try", "upsert", "finally"
    run_source,    \* the source argument
    listings,      \* the list scrape_listings() returned
    idx,           \* the next element of `for listing_data in listings`
    new_count,
    updated_count,
    exc,           \* str(e) of the exception caught
    last_upsert    \* the last upsert_listing call: what it saw and returned

dbVars == <<listings_db, logs_db, sess_rows, pending, rpc, run_source, listings,
            idx, new_count, updated_count, exc, last_upsert>>

VARIABLES
    \* ---- normalize_resort_name (utils/matching.py) ----
    npc,          \* position: "input" while the argument is put together, "done"
    raw_name,     \* the argument
    nfrags,       \* number of fragments the argument is made of
    normalized,   \* the value returned: the key the reference import writes
    listing_key   \* the resort_name_normalized each extractor writes for raw_name

normVars == <<npc, raw_name, nfrags, normalized, listing_key>>

VARIABLES
    \* ---- match_resort_to_reference (utils/matching.py) ----
    mpc,                \* position: "args" while the arguments are chosen, "done"
    listing_resort,     \* argument: the listing's resort name
    reference_resorts,  \* argument: the list of reference resort names
    threshold,          \* argument: the least fuzzy score accepted
    match_result        \* the value returned

matchVars == <<mpc, listing_resort, reference_resorts, threshold, match_result>>

VARIABLES
    \* ---- deal metrics (utils/calculator.py) ----
    cpc,          \* position: "table" while the tables fill, "called", "done"
    listings_df,  \* the listings as load_listings_df reads them from the store
    mf_ref_df,    \* the reference rows as load_mf_reference_df reads them
    metrics,      \* enrich_listings_dataframe: the metrics of each listing
    call          \* one direct call of the four calculators: arguments, results

calcVars == <<cpc, listings_df, mf_ref_df, metrics, call>>

VARIABLES
    \* ---- apply_filters (app/components/filters.py) ----
    apc,          \* position: "table" while the table fills, "done"
    enriched_df,  \* argument df: the enriched listings
    filters_dict, \* argument filters: which keys it holds, and their values
    filtered      \* the table returned

filterVars == <<apc, enriched_df, filters_dict, filtered>>

VARIABLES
    \* ---- usage-cycle inference (scrapers/*_scraper.py, utils/matching.py) ----
    upc,          \* position: "input" while the text is put together, "done"
    usage_text,   \* the text read
    nwords,       \* number of words it was put together from
    usage_by      \* the usage each implementation returns for the text

usageVars == <<upc, usage_text, nwords, usage_by>>

VARIABLES
    \* ---- the location field of a listing (scrapers/*_scraper.py) ----
    lpc,          \* position: "input" while the name is chosen, "done"
    loc_ext,      \* the extractor, "" before it is chosen
    loc_resort,   \* the resort name of the listing
    loc_passed,   \* SMTSN: the location passed with the resort name, else ""
    loc_words,    \* number of words the name was put together from
    location      \* listing['location'] as emitted

locationVars == <<lpc, loc_ext, loc_resort, loc_passed, loc_words, location>>

VARIABLES
    \* ---- import_mf_csv (app/pages/3_data_management.py) ----
    mf_db,       \* table mf_reference as committed: what another session reads
    mf_sess,     \* table mf_reference as the import's session sees it
    ipc,         \* position: "idle", "rows", "except", "finally"
    imports,     \* number of calls so far
    df,          \* the DataFrame argument: a sequence of rows
    irow,        \* the next row of `for _, row in df.iterrows()`
    count,
    mf_before,   \* table mf_reference as committed when the call began
    iresult      \* the dictionary returned: [success, count, error]

importVars == <<mf_db, mf_sess, ipc, imports, df, irow, count, mf_before, iresult>>

vars ==
    <<fetchVars, scrapeVars, dbVars, normVars, importVars, matchVars, calcVars,
      filterVars, usageVars, locationVars>>

\* what the steps of one component leave alone
FetchFrame ==
    UNCHANGED <<scrapeVars, dbVars, normVars, importVars, matchVars,
                calcVars, filterVars, usageVars, locationVars>>
ScrapeFrame ==
    UNCHANGED <<fetchVars, dbVars, normVars, importVars, matchVars,
                calcVars, filterVars, usageVars, locationVars>>
RunFrame ==
    UNCHANGED <<fetchVars, scrapeVars, normVars, importVars, matchVars,
                calcVars, filterVars, usageVars, locationVars>>
NormFrame ==
    UNCHANGED <<fetchVars, scrapeVars, dbVars, importVars, matchVars,
                calcVars, filterVars, usageVars, locationVars>>
ImportFrame ==
    UNCHANGED <<fetchVars, scrapeVars, dbVars, normVars, matchVars,
                calcVars, filterVars, usageVars, locationVars>>
MatchFrame ==
    UNCHANGED <<fetchVars, scrapeVars, dbVars, normVars, importVars,
                calcVars, filterVars, usageVars, locationVars>>
CalcFrame ==
    UNCHANGED <<fetchVars, scrapeVars, dbVars, normVars, importVars,
                matchVars, filterVars, usageVars, locationVars>>
FilterFrame ==
    UNCHANGED <<fetchVars, scrapeVars, dbVars, normVars, importVars,
                matchVars, calcVars, usageVars, locationVars>>
UsageFrame ==
    UNCHANGED <<fetchVars, scrapeVars, dbVars, normVars, importVars,
                matchVars, calcVars, filterVars, locationVars>>
LocationFrame ==
    UNCHANGED <<fetchVars, scrapeVars, dbVars, normVars, importVars,
                matchVars, calcVars, filterVars, usageVars>>

-----------------------------------------------------------------------------
(* Python values *)

None == <<"None">>
NotYet == <<"NotYet">>

\* a nullable number: None, or a dict key that is not there
NoneNum == 0 - 1
NoKey == 0 - 2
\* float('nan'): what pandas gives for an empty cell
NaN == 0 - 4

RECURSIVE Pow2(_)
Pow2(n) == IF n = 0 THEN 1 ELSE 2 * Pow2(n - 1)

-----------------------------------------------------------------------------
(* Fetch resilience layer: BaseScraper._fetch_with_retry *)

MAX_RETRIES == 3
REQUEST_DELAY_MIN == 2
REQUEST_DELAY_MAX == 5

Body(text) == <<"body", text>>

\* response bodies the upstream may serve (the empty page included)
Bodies == {"", "<html>p1</html>", "<html>p2</html>"}

\* Retry-After header of a 429 response: absent, delay-seconds, or an
\* HTTP-date
RetryAfterHeaders == {"absent", "1", "120", "Wed, 21 Oct 2026 07:28:00 GMT"}

\* int(text): the number, or ValueError (here -1) for text that is no integer
IntOf(text) ==
    CASE text = "1" -> 1
      [] text = "120" -> 120
      [] OTHER -> -1

\* retry_after = int(response.headers.get('Retry-After', 60))
RetryAfterSeconds(header) == IF header = "absent" THEN 60 ELSE IntOf(header)

\* what one session.get() can do: a response (ok, 429, 403, another error
\* status) or an exception raised by the call
OutcomeKinds ==
    {"ok", "429", "403", "http_error", "timeout", "connection_error", "other_exception"}

Outcomes ==
    {o \in [kind : OutcomeKinds, body : Bodies, retry_after : RetryAfterHeaders] :
        /\ o.kind # "ok" => o.body = ""
        /\ o.kind # "429" => o.retry_after = "absent"}

\* what raises inside the try block: the call itself, int() of a Retry-After
\* that is no integer, or response.raise_for_status() on an error status
RaisesInTry(o) ==
    \/ o.kind \in {"http_error", "timeout", "connection_error", "other_exception"}
    \/ o.kind = "429" /\ RetryAfterSeconds(o.retry_after) < 0

\* the except clauses without the final `except Exception`
CaughtNoCatchAll(o) == o.kind \in {"http_error", "timeout", "connection_error"}

\* the except clauses: Timeout, ConnectionError, HTTPError, Exception
Caught(o) == o.kind \in {"http_error", "timeout", "connection_error", "other_exception", "429"}

FetchInit ==
    /\ fpc = "idle"
    /\ attempt = 0
    /\ outcomes = <<>>
    /\ delays = <<>>
    /\ sleeps = <<>>
    /\ fres = NotYet

\* entering the function: the for loop starts at attempt 0
FetchBegin ==
    /\ fpc = "idle"
    /\ fpc' = "loop"
    /\ attempt' = 0
    /\ UNCHANGED <<outcomes, delays, sleeps, fres>>

\* a loop that throttles the first request only: retries go out at once
RateLimitFirstAttemptOnly ==
    /\ fpc = "loop"
    /\ attempt < MAX_RETRIES
    /\ IF attempt = 0
         THEN \E d \in {REQUEST_DELAY_MIN, REQUEST_DELAY_MAX} : delays' = Append(delays, d)
         ELSE UNCHANGED delays
    /\ fpc' = "get"
    /\ UNCHANGED <<attempt, outcomes, sleeps, fres>>

\* self._rate_limit(): time.sleep(random.uniform(MIN, MAX)); the two ends of
\* the interval stand for the values in it
RateLimit ==
    /\ fpc = "loop"
    /\ attempt < MAX_RETRIES
    /\ \E d \in {REQUEST_DELAY_MIN, REQUEST_DELAY_MAX} : delays' = Append(delays, d)
    /\ fpc' = "get"
    /\ UNCHANGED <<attempt, outcomes, sleeps, fres>>

\* the loop is exhausted: `return None`
FetchGiveUp ==
    /\ fpc = "loop"
    /\ attempt >= MAX_RETRIES
    /\ fres' = None
    /\ fpc' = "returned"
    /\ UNCHANGED <<attempt, outcomes, delays, sleeps>>

\* session.get(...) and the handling of its response inside the try block
Get(o) ==
    /\ fpc = "get"
    /\ outcomes' = Append(outcomes, o)
    /\ IF RaisesInTry(o)
         THEN /\ fpc' = IF Caught(o) THEN "backoff" ELSE "raised"
              /\ UNCHANGED <<attempt, sleeps, fres>>
       ELSE IF o.kind = "429"
         THEN /\ sleeps' = Append(sleeps,
                     [kind |-> "429", attempt |-> attempt,
                      seconds |-> RetryAfterSeconds(o.retry_after)])
              /\ attempt' = attempt + 1          \* continue
              /\ fpc' = "loop"
              /\ UNCHANGED fres
       ELSE IF o.kind = "403"
         THEN /\ sleeps' = Append(sleeps,
                     [kind |-> "403", attempt |-> attempt,
                      seconds |-> Pow2(attempt) * 30])
              /\ attempt' = attempt + 1          \* continue
              /\ fpc' = "loop"
              /\ UNCHANGED fres
       ELSE   /\ fres' = Body(o.body)            \* return response.text
              /\ fpc' = "returned"
              /\ UNCHANGED <<attempt, sleeps>>
    /\ UNCHANGED delays

\* a backoff that is slept after the last attempt as well
BackoffAfterLastAttempt ==
    /\ fpc = "backoff"
    /\ \E jitter \in {0, 1} :
          sleeps' = Append(sleeps,
              [kind |-> "backoff", attempt |-> attempt,
               seconds |-> Pow2(attempt) + jitter])
    /\ attempt' = attempt + 1
    /\ fpc' = "loop"
    /\ UNCHANGED <<outcomes, delays, fres>>

\* after an except clause: the exponential backoff, then the next iteration
Backoff ==
    /\ fpc = "backoff"
    /\ IF attempt < MAX_RETRIES - 1
         THEN \E jitter \in {0, 1} :
                sleeps' = Append(sleeps,
                    [kind |-> "backoff", attempt |-> attempt,
                     seconds |-> Pow2(attempt) + jitter])
         ELSE UNCHANGED sleeps
    /\ attempt' = attempt + 1
    /\ fpc' = "loop"
    /\ UNCHANGED <<outcomes, delays, fres>>

FetchNext ==
    \/ FetchBegin /\ FetchFrame
    \/ RateLimit /\ FetchFrame
    \/ \E o \in Outcomes : Get(o) /\ FetchFrame
    \/ Backoff /\ FetchFrame
    \/ FetchGiveUp /\ FetchFrame

-----------------------------------------------------------------------------
(* Source extractors: what one card (row) of a page holds *)

RaiseNum == 0 - 3      \* the conversion raised ValueError

PriceTexts == {"", "Call", "$1,000", "$3,000"}
FeeTexts == {"", "Fees $1,828"}
PointsTexts == {"", ", points", "0 points", "8,000 points"}
\* a detail page as fetched: None (the fetch failed) or its text
DetailPages == {"None", "<html>no figure</html>", "ANNUAL POINTS: 0", "ANNUAL POINTS: 9,600"}

\* BaseScraper._extract_number: None for empty text or text without digits
ExtractNumber(text) ==
    CASE text = "$1,000" -> 1000
      [] text = "$3,000" -> 3000
      [] text = "Fees $1,828" -> 1828
      [] OTHER -> NoneNum

\* re.search(r'\$\s*([\d,]+...)') and float(group.replace(',', '')):
\* NoKey when the pattern does not match (the key is never set)
DollarAmount(text) ==
    CASE text = "$1,000" -> 1000
      [] text = "$3,000" -> 3000
      [] text = "Fees $1,828" -> 1828
      [] OTHER -> NoKey

\* the points patterns ([\d,]+)\s*...points and int(group.replace(',', ''));
\* a group of commas only makes int('') raise ValueError
CardPoints(text) ==
    CASE text = "0 points" -> 0
      [] text = "8,000 points" -> 8000
      [] text = ", points" -> RaiseNum
      [] OTHER -> NoneNum

\* _fetch_detail_page_points: None when the fetch failed or no pattern matches
DetailPoints(page) ==
    CASE page = "ANNUAL POINTS: 0" -> 0
      [] page = "ANNUAL POINTS: 9,600" -> 9600
      [] OTHER -> NoneNum

\* a card as the selectors and patterns see it
CardShape ==
    [id : BOOLEAN,          \* posting path / AD # / classified-listing link found
     resort : BOOLEAN,      \* resort name found (TUG: the resort link)
     hgvc : BOOLEAN,        \* TUG: a keyword of HGVC_KEYWORDS is in the row text
     price_elem : BOOLEAN,  \* the price element exists
     price : PriceTexts,
     free : BOOLEAN,        \* TUG: 'free' or '$0' is in the row text
     fee : FeeTexts,
     pts : PointsTexts,
     detail : DetailPages]

\* the cards that differ for an extractor: what it never reads is held fixed
Cards(e) ==
    {c \in CardShape :
        /\ e # "tug" => c.resort /\ c.hgvc /\ ~c.free
        /\ e = "redweek" => c.price_elem /\ c.pts = ""
        /\ e = "smtsn" => c.fee = ""
        /\ e = "tug" => c.detail = "None"
        /\ ~c.price_elem => c.price # "Call"
        /\ (~c.id \/ ~c.resort \/ ~c.hgvc) =>
              /\ c.price_elem /\ c.price = "" /\ ~c.free /\ c.fee = ""
              /\ c.pts = "" /\ c.detail = "None"
              /\ (~c.hgvc => c.id /\ c.resort)
              /\ (~c.id => c.resort)}

\* the few cards a many-page run draws from
FewCards(e) ==
    {c \in [id : BOOLEAN, resort : {TRUE}, hgvc : {TRUE}, price_elem : {TRUE},
            price : {"", "$3,000"}, free : {FALSE}, fee : {""}, pts : {""},
            detail : {"None"}] :
        ~c.id => c.price = ""}

Pool(e, env) == IF env.pool = "all" THEN Cards(e) ELSE FewCards(e)

NoListing == [source_id |-> 0, asking_price |-> NoKey, annual_mf |-> NoKey, points |-> NoKey]

ParseResult(kind, listing, fetched) ==
    [kind |-> kind, listing |-> IF kind = "listing" THEN listing ELSE NoListing,
     detail_fetched |-> fetched]

\* RedWeekScraper.parse_listing_card
ParseRedWeek(c, sid) ==
    IF ~c.id THEN ParseResult("none", NoListing, FALSE)
    ELSE ParseResult("listing",
            [source_id |-> sid,
             asking_price |-> ExtractNumber(c.price),
             annual_mf |-> DollarAmount(c.fee),
             points |-> DetailPoints(c.detail)],
            TRUE)

\* `if not points:` of SMTSNScraper.parse_listing_card
NeedsDetail(points) == points = NoneNum \/ points = 0

\* SMTSNScraper.parse_listing_card
ParseSMTSN(c, sid) ==
    IF ~c.id THEN ParseResult("none", NoListing, FALSE)
    ELSE IF CardPoints(c.pts) = RaiseNum THEN ParseResult("raise", NoListing, FALSE)
    ELSE LET points == CardPoints(c.pts) IN
         ParseResult("listing",
            [source_id |-> sid,
             asking_price |-> IF c.price_elem THEN ExtractNumber(c.price)
                              ELSE DollarAmount(c.price),
             annual_mf |-> NoKey,
             points |-> IF NeedsDetail(points) THEN DetailPoints(c.detail) ELSE points],
            NeedsDetail(points))

\* TUGScraper.parse_listing_row
ParseTUG(c, sid) ==
    IF ~c.id \/ ~c.resort THEN ParseResult("none", NoListing, FALSE)
    ELSE IF CardPoints(c.pts) = RaiseNum THEN ParseResult("raise", NoListing, FALSE)
    ELSE LET found == IF c.price_elem THEN DollarAmount(c.price) ELSE NoKey
             points == CardPoints(c.pts)
         IN  ParseResult("listing",
                [source_id |-> sid,
                 asking_price |-> IF found = NoKey /\ c.free THEN 0 ELSE found,
                 annual_mf |-> DollarAmount(c.fee),
                 points |-> IF points = NoneNum THEN NoKey ELSE points],
                FALSE)

Parse(e, c, sid) ==
    CASE e = "redweek" -> ParseRedWeek(c, sid)
      [] e = "smtsn" -> ParseSMTSN(c, sid)
      [] e = "tug" -> ParseTUG(c, sid)

\* the price filters of the card loop (RedWeek, SMTSN):
\*   listing.get('asking_price', 0) > filters['price_max'] -> continue
\* comparing None with a number raises TypeError
PriceFilter(listing, f) ==
    LET price == IF listing.asking_price = NoKey THEN 0 ELSE listing.asking_price
    IN  IF f.price_min = 0 /\ f.price_max = 0 THEN "append"
        ELSE IF f.price_max # 0 /\ price = NoneNum THEN "raise"
        ELSE IF f.price_max # 0 /\ price > f.price_max THEN "continue"
        ELSE IF f.price_min # 0 /\ price = NoneNum THEN "raise"
        ELSE IF f.price_min # 0 /\ price < f.price_min THEN "continue"
        ELSE "append"

\* one pass of the card loop: what is appended to all_listings (an exception in
\* the try block is logged and the loop continues)
Emit(e, c, f, sid) ==
    LET r == Parse(e, c, sid) IN
    IF e = "tug"
      THEN IF c.hgvc /\ r.kind = "listing" THEN <<r.listing>> ELSE <<>>
      ELSE IF r.kind = "listing" /\ PriceFilter(r.listing, f) = "append"
             THEN <<r.listing>> ELSE <<>>

\* whether the pass fetched the detail page of the card
FetchedDetail(e, c) == (e = "tug" => c.hgvc) /\ Parse(e, c, 0).detail_fetched

-----------------------------------------------------------------------------
(* Source extractors: scrape_listings *)

PageResults == {None, Body(""), Body("<html>p1</html>")}

\* `if not html`
Html(r) == r # None /\ r # Body("")

FilterValues == {0, 2000}

\* after a page that could not be fetched without the `continue`
AbortOnPageFailure(e) == "return"

\* after a page that could not be fetched: RedWeek and SMTSN `continue` with
\* the next resort, TUG (one search page) returns []
OnPageFailure(e) == IF e = "tug" THEN "return" ELSE "continue"

SourceId(page, pos) == page * 10 + pos

ScrapeIdle ==
    /\ ext = "tug"
    /\ filters = [price_min |-> 0, price_max |-> 0]
    /\ envelope = [pages |-> 0, cards |-> 0, pool |-> "few"]
    /\ spc = "idle"
    /\ resorts = 0
    /\ pagesIn = <<>>
    /\ all_listings = <<>>
    /\ sres = NotYet

ScrapeStart(env) ==
    /\ ext \in {"tug", "redweek", "smtsn"}
    /\ filters \in [price_min : FilterValues, price_max : FilterValues]
    /\ envelope = env
    /\ spc = "start"
    /\ resorts = 0
    /\ pagesIn = <<>>
    /\ all_listings = <<>>
    /\ sres = NotYet

\* the pages to visit: TUG's one search page, SMTSN's HGVC_RESORTS, RedWeek's
\* _get_hgvc_resorts() ([] when the directory page cannot be fetched)
GetResorts ==
    /\ spc = "start"
    /\ spc' = "page"
    /\ CASE ext = "tug" -> resorts' = 1
         [] ext = "smtsn" -> resorts' = envelope.pages
         [] ext = "redweek" ->
              \E dir \in PageResults :
                 IF Html(dir) THEN resorts' \in 0..envelope.pages ELSE resorts' = 0
    /\ UNCHANGED <<ext, filters, envelope, pagesIn, all_listings, sres>>

\* html = self._fetch_with_retry(url) of the next page
FetchPage(r) ==
    /\ spc = "page"
    /\ Len(pagesIn) < resorts
    /\ pagesIn' = Append(pagesIn, [html |-> r, cards |-> <<>>])
    /\ IF Html(r)
         THEN spc' = "cards" /\ UNCHANGED <<all_listings, sres>>
         ELSE IF OnPageFailure(ext) = "continue"
                THEN UNCHANGED <<spc, all_listings, sres>>
                ELSE /\ spc' = "done"
                     /\ sres' = IF ext = "tug" THEN <<>> ELSE all_listings
                     /\ UNCHANGED all_listings
    /\ UNCHANGED <<ext, filters, envelope, resorts>>

\* one pass of `for card in cards`
ParseCard(c) ==
    /\ spc = "cards"
    /\ LET page == Len(pagesIn)
           pos == Len(pagesIn[page].cards) + 1
       IN  /\ pos <= envelope.cards
           /\ pagesIn' = [pagesIn EXCEPT ![page].cards =
                            Append(@, [card |-> c, detail_fetched |-> FetchedDetail(ext, c)])]
           /\ all_listings' = all_listings \o Emit(ext, c, filters, SourceId(page, pos))
    /\ UNCHANGED <<ext, filters, envelope, spc, resorts, sres>>

\* the cards of the page are exhausted
EndPage ==
    /\ spc = "cards"
    /\ spc' = "page"
    /\ UNCHANGED <<ext, filters, envelope, resorts, pagesIn, all_listings, sres>>

\* `return all_listings`
ScrapeReturn ==
    /\ spc = "page"
    /\ Len(pagesIn) = resorts
    /\ spc' = "done"
    /\ sres' = all_listings
    /\ UNCHANGED <<ext, filters, envelope, resorts, pagesIn, all_listings>>

ScrapeNext ==
    \/ GetResorts /\ ScrapeFrame
    \/ \E r \in PageResults : FetchPage(r) /\ ScrapeFrame
    \/ \E c \in Pool(ext, envelope) : ParseCard(c) /\ ScrapeFrame
    \/ EndPage /\ ScrapeFrame
    \/ ScrapeReturn /\ ScrapeFrame

-----------------------------------------------------------------------------
(* The listing store: utils/database.py *)

Sources == {"tug", "redweek"}

\* "{source}_{external_id}"
ExternalIds(source) == IF source = "tug" THEN {"1", "2"} ELSE {"1"}
SourceIdOf(source, external) == source \o "_" \o external

\* the prices submitted: TUG's rows with and without a price, RedWeek's
\* without
AskingPrices(source) == IF source = "tug" THEN {NoKey, 1000} ELSE {NoKey}

\* a listing dictionary as an extractor emits it
ListingData(source) ==
    [source : {source},
     source_id : {SourceIdOf(source, x) : x \in ExternalIds(source)},
     asking_price : AskingPrices(source)]

\* Listing(**listing_data): a column that is not given is NULL, is_active
\* defaults to True; the id is assigned by the INSERT
NewListing(data) ==
    [id |-> 0,
     source |-> data.source,
     source_id |-> data.source_id,
     asking_price |-> IF data.asking_price = NoKey THEN NoneNum ELSE data.asking_price,
     is_active |-> TRUE]

\* the flush: INSERT the pending objects, ids counting on
RECURSIVE Flush(_, _)
Flush(rows, pend) ==
    IF pend = <<>> THEN rows
    ELSE Flush(Append(rows, [Head(pend) EXCEPT !.id = Len(rows) + 1]), Tail(pend))

\* source_id is UNIQUE: the INSERT of a second row with it fails
ViolatesUnique(rows) ==
    \E i, j \in DOMAIN rows : i # j /\ rows[i].source_id = rows[j].source_id

\* what a query of the session without autoflush would see
QueryViewNoFlush(rows, pend) == rows

\* what a query of the session sees: session.query() flushes first (autoflush)
QueryView(rows, pend) == Flush(rows, pend)

\* what is pending after a query
PendingAfterQuery(rows, pend) ==
    IF Len(QueryView(rows, pend)) = Len(rows) THEN pend ELSE <<>>

\* get_listing_by_source_id: the index of the first row with the id, 0 for None
get_listing_by_source_id(rows, source_id) ==
    IF \E i \in DOMAIN rows : rows[i].source_id = source_id
      THEN CHOOSE i \in DOMAIN rows :
              /\ rows[i].source_id = source_id
              /\ \A j \in 1..(i - 1) : rows[j].source_id # source_id
      ELSE 0

\* an update that writes NULL for a key that was not submitted
UpdateListingNullsOmitted(row, data) ==
    [row EXCEPT !.source = data.source,
                !.source_id = data.source_id,
                !.asking_price = IF data.asking_price = NoKey THEN NoneNum
                                 ELSE data.asking_price]

\* the update branch of upsert_listing: setattr for every key submitted
UpdateListing(row, data) ==
    [row EXCEPT !.source = data.source,
                !.source_id = data.source_id,
                !.asking_price = IF data.asking_price = NoKey THEN @ ELSE data.asking_price]

\* an upsert that reports every submitted listing as new
upsert_listing_always_new(rows, pend, data) ==
    LET seen == QueryView(rows, pend)
        left == PendingAfterQuery(rows, pend)
        existing == get_listing_by_source_id(seen, data.source_id)
    IN  IF existing # 0
          THEN [rows |-> [seen EXCEPT ![existing] = UpdateListing(@, data)],
                pending |-> left, is_new |-> TRUE]
          ELSE [rows |-> seen, pending |-> Append(left, NewListing(data)),
                is_new |-> TRUE]

\* upsert_listing(session, listing_data):
\* [rows, pending] of the session afterwards, and is_new
upsert_listing(rows, pend, data) ==
    LET seen == QueryView(rows, pend)
        left == PendingAfterQuery(rows, pend)
        existing == get_listing_by_source_id(seen, data.source_id)
    IN  IF existing # 0
          THEN [rows |-> [seen EXCEPT ![existing] = UpdateListing(@, data)],
                pending |-> left, is_new |-> FALSE]
          ELSE [rows |-> seen, pending |-> Append(left, NewListing(data)),
                is_new |-> TRUE]

\* get_all_listings(session, active_only) of a session opened later
get_all_listings(rows, active_only) ==
    {rows[i] : i \in {k \in DOMAIN rows : active_only => rows[k].is_active}}

\* create_scrape_log: status defaults to 'running', the counts to 0
NewScrapeLog(source) ==
    [source |-> source, status |-> "running", listings_found |-> 0,
     listings_new |-> 0, listings_updated |-> 0, error_message |-> "NULL"]

\* a complete_scrape_log that writes nothing
complete_scrape_log_lost(logs, log, found, new, updated, status, error) == logs

\* complete_scrape_log: the fields set and committed
complete_scrape_log(logs, log, found, new, updated, status, error) ==
    [logs EXCEPT ![log] = [@ EXCEPT !.listings_found = found,
                                    !.listings_new = new,
                                    !.listings_updated = updated,
                                    !.status = status,
                                    !.error_message = error]]

-----------------------------------------------------------------------------
(* run_scraping: app/pages/3_data_management.py *)

MaxRuns == 2
MaxBatch == 2

RECURSIVE SeqsUpTo(_, _)
SeqsUpTo(S, n) ==
    IF n = 0 THEN {<<>>}
    ELSE LET shorter == SeqsUpTo(S, n - 1)
         IN  shorter \cup {Append(q, x) : q \in {r \in shorter : Len(r) = n - 1}, x \in S}

\* what scrape_listings() of a source may return
Batches(source) == SeqsUpTo(ListingData(source), MaxBatch)

\* str(e) of what the extractor or the store may raise
ExtractorError == "'NoneType' object has no attribute 'select'"
StoreError == "database is locked"

NoUpsert == [source_id |-> "", is_new |-> FALSE, existed |-> FALSE,
             count_before |-> 0, count_after |-> 0, price_sent |-> NoKey,
             price_stored |-> NoKey]

RunIdle ==
    /\ listings_db = <<>>
    /\ logs_db = <<>>
    /\ sess_rows = <<>>
    /\ pending = <<>>
    /\ rpc = "idle"
    /\ run_source = "tug"
    /\ listings = <<>>
    /\ idx = 1
    /\ new_count = 0
    /\ updated_count = 0
    /\ exc = "NULL"
    /\ last_upsert = NoUpsert

\* session = get_session(); log = create_scrape_log(session, source)
StartRun(source) ==
    /\ rpc = "idle"
    /\ Len(logs_db) < MaxRuns
    /\ run_source' = source
    /\ logs_db' = Append(logs_db, NewScrapeLog(source))
    /\ sess_rows' = listings_db
    /\ rpc' = "try"
    /\ UNCHANGED <<listings_db, pending, listings, idx, new_count, updated_count,
                   exc, last_upsert>>

\* listings = scraper.scrape_listings()
ScrapeReturns(batch) ==
    /\ rpc = "try"
    /\ listings' = batch
    /\ rpc' = "upsert"
    /\ UNCHANGED <<listings_db, logs_db, sess_rows, pending, run_source, idx,
                   new_count, updated_count, exc, last_upsert>>

\* except Exception as e: session.rollback();
\* complete_scrape_log(..., status='failed', error=str(e)); return
FailRun(error) ==
    /\ exc' = error
    /\ sess_rows' = listings_db
    /\ pending' = <<>>
    /\ logs_db' = complete_scrape_log(logs_db, Len(logs_db), 0, 0, 0, "failed", error)
    /\ rpc' = "finally"
    /\ UNCHANGED <<listings_db, run_source, listings, idx, new_count,
                   updated_count, last_upsert>>

\* ... or the extractor raises, and the except block runs
ScrapeRaises(error) ==
    /\ rpc = "try"
    /\ FailRun(error)

\* one pass of `for listing_data in listings`
UpsertNext ==
    /\ rpc = "upsert"
    /\ idx <= Len(listings)
    /\ LET data == listings[idx]
           r == upsert_listing(sess_rows, pending, data)
           stored == Flush(r.rows, r.pending)
           at == get_listing_by_source_id(stored, data.source_id)
       IN  /\ sess_rows' = r.rows
           /\ pending' = r.pending
           /\ new_count' = IF r.is_new THEN new_count + 1 ELSE new_count
           /\ updated_count' = IF r.is_new THEN updated_count ELSE updated_count + 1
           /\ last_upsert' =
                [source_id |-> data.source_id,
                 is_new |-> r.is_new,
                 existed |-> \E i \in DOMAIN Flush(sess_rows, pending) :
                                Flush(sess_rows, pending)[i].source_id = data.source_id,
                 count_before |-> Len(sess_rows) + Len(pending),
                 count_after |-> Len(r.rows) + Len(r.pending),
                 price_sent |-> data.asking_price,
                 price_stored |-> stored[at].asking_price]
    /\ idx' = idx + 1
    /\ UNCHANGED <<listings_db, logs_db, rpc, run_source, listings, exc>>

\* ... or the store raises inside upsert_listing, and the except block runs
UpsertRaises(error) ==
    /\ rpc = "upsert"
    /\ idx <= Len(listings)
    /\ FailRun(error)

\* session.commit(); complete_scrape_log(..., status='completed'); return.
\* A commit that violates the unique constraint raises
CommitRun ==
    /\ rpc = "upsert"
    /\ idx > Len(listings)
    /\ IF ViolatesUnique(Flush(sess_rows, pending))
         THEN FailRun("UNIQUE constraint failed: listings.source_id")
         ELSE /\ listings_db' = Flush(sess_rows, pending)
              /\ sess_rows' = Flush(sess_rows, pending)
              /\ pending' = <<>>
              /\ logs_db' = complete_scrape_log(logs_db, Len(logs_db), Len(listings),
                                new_count, updated_count, "completed", "NULL")
              /\ rpc' = "finally"
              /\ UNCHANGED <<exc, run_source, listings, idx, new_count,
                             updated_count, last_upsert>>

\* ... or session.commit() raises, and the except block runs
CommitRaises(error) ==
    /\ rpc = "upsert"
    /\ idx > Len(listings)
    /\ FailRun(error)

\* finally: session.close(); the call is over and its locals are gone
CloseRun ==
    /\ rpc = "finally"
    /\ rpc' = "idle"
    /\ sess_rows' = <<>>
    /\ pending' = <<>>
    /\ run_source' = "tug"
    /\ listings' = <<>>
    /\ idx' = 1
    /\ new_count' = 0
    /\ updated_count' = 0
    /\ exc' = "NULL"
    /\ last_upsert' = NoUpsert
    /\ UNCHANGED <<listings_db, logs_db>>

RunNext ==
    \/ \E source \in Sources : StartRun(source) /\ RunFrame
    \/ \E batch \in Batches(run_source) : ScrapeReturns(batch) /\ RunFrame
    \/ ScrapeRaises(ExtractorError) /\ RunFrame
    \/ UpsertNext /\ RunFrame
    \/ UpsertRaises(StoreError) /\ RunFrame
    \/ CommitRun /\ RunFrame
    \/ CommitRaises(StoreError) /\ RunFrame
    \/ CloseRun /\ RunFrame

-----------------------------------------------------------------------------
(* Resort-name normalisation: utils/matching.py *)

\* the character at position i of a string, and the string from position i on
Ch(s, i) == SubSeq(s, i, i)
From(s, i) == SubSeq(s, i, Len(s))

UpperCase == "ABCDEFGHIJKLMNOPQRSTUVWXYZ"
LowerCase == "abcdefghijklmnopqrstuvwxyz"
DigitsUnderscore == "0123456789_"

In(c, alphabet) == \E i \in 1..Len(alphabet) : Ch(alphabet, i) = c

LowerCh(c) ==
    IF In(c, UpperCase)
      THEN Ch(LowerCase, CHOOSE i \in 1..Len(UpperCase) : Ch(UpperCase, i) = c)
      ELSE c

\* str.lower()
RECURSIVE lower(_)
lower(s) == IF s = "" THEN "" ELSE LowerCh(Ch(s, 1)) \o lower(From(s, 2))

\* the regex classes \s, \w and [-–—] over the characters of the names
IsSpace(c) == c = " "
IsWord(c) == In(c, UpperCase) \/ In(c, LowerCase) \/ In(c, DigitsUnderscore)
IsDash(c) == c = "-"

\* \s* from position i: the position after the whitespace
RECURSIVE SkipSpaces(_, _)
SkipSpaces(s, i) ==
    IF i <= Len(s) /\ IsSpace(Ch(s, i)) THEN SkipSpaces(s, i + 1) ELSE i

\* a literal at position i under re.I
StartsWithCI(s, i, lit) ==
    /\ i + Len(lit) - 1 <= Len(s)
    /\ lower(SubSeq(s, i, i + Len(lit) - 1)) = lit

\* re.sub(r'^Hilton Grand Vacations?\s*(Club)?\s*', '', name, flags=re.I)
StripBrand(s) ==
    IF StartsWithCI(s, 1, "hilton grand vacation")
      THEN LET a == IF StartsWithCI(s, 22, "s") THEN 23 ELSE 22
               b == SkipSpaces(s, a)
               c == IF StartsWithCI(s, b, "club") THEN b + 4 ELSE b
           IN  From(s, SkipSpaces(s, c))
      ELSE s

\* re.sub(r'^HGV(C)?\s*', '', name, flags=re.I)
StripHGV(s) ==
    IF StartsWithCI(s, 1, "hgv")
      THEN From(s, SkipSpaces(s, IF StartsWithCI(s, 4, "c") THEN 5 ELSE 4))
      ELSE s

\* re.sub(r'^The\s+', '', name, flags=re.I)
StripThe(s) ==
    IF StartsWithCI(s, 1, "the") /\ 4 <= Len(s) /\ IsSpace(Ch(s, 4))
      THEN From(s, SkipSpaces(s, 4))
      ELSE s

\* the alternatives of (at the|on the|at|by), in the order they are tried
Fillers == <<"at the", "on the", "at", "by">>

\* \b at position i
Boundary(s, i) ==
    LET before == i > 1 /\ IsWord(Ch(s, i - 1))
        after == i <= Len(s) /\ IsWord(Ch(s, i))
    IN  before # after

FillerAt(s, i, k) ==
    /\ Boundary(s, i)
    /\ StartsWithCI(s, i, Fillers[k])
    /\ Boundary(s, i + Len(Fillers[k]))

\* re.sub(r'\b(at the|on the|at|by)\b\s*', '', name, flags=re.I), from position i
RECURSIVE RemoveFillers(_, _)
RemoveFillers(s, i) ==
    IF i > Len(s) THEN ""
    ELSE IF \E k \in DOMAIN Fillers : FillerAt(s, i, k)
      THEN LET k == CHOOSE k \in DOMAIN Fillers :
                      /\ FillerAt(s, i, k)
                      /\ \A j \in 1..(k - 1) : ~FillerAt(s, i, j)
           IN  RemoveFillers(s, SkipSpaces(s, i + Len(Fillers[k])))
      ELSE Ch(s, i) \o RemoveFillers(s, i + 1)

\* re.sub(r'\s*[-–—]\s*', ' ', name), from position i
RECURSIVE DashToSpace(_, _)
DashToSpace(s, i) ==
    IF i > Len(s) THEN ""
    ELSE LET j == SkipSpaces(s, i) IN
         IF j <= Len(s) /\ IsDash(Ch(s, j))
           THEN " " \o DashToSpace(s, SkipSpaces(s, j + 1))
           ELSE Ch(s, i) \o DashToSpace(s, i + 1)

\* ' '.join(name.split()), from position i
RECURSIVE JoinSplit(_, _)
JoinSplit(s, i) ==
    LET j == SkipSpaces(s, i) IN
    IF j > Len(s) THEN ""
    ELSE IF j > i /\ i > 1 THEN " " \o Ch(s, j) \o JoinSplit(s, j + 1)
    ELSE Ch(s, j) \o JoinSplit(s, j + 1)

\* normalize_resort_name(name); .strip() finds nothing left to strip
normalize_resort_name(name) ==
    IF name = "" THEN ""
    ELSE lower(JoinSplit(DashToSpace(RemoveFillers(
            StripThe(StripHGV(StripBrand(name))), 1), 1), 1))

\* re.sub(r'^Hilton Grand Vacations?\s*(Club)?', '', name, flags=re.I) of the
\* RedWeek and SMTSN extractors: no \s* after (Club)?
StripBrandNoTrail(s) ==
    IF StartsWithCI(s, 1, "hilton grand vacation")
      THEN LET a == IF StartsWithCI(s, 22, "s") THEN 23 ELSE 22
               b == SkipSpaces(s, a)
           IN  From(s, IF StartsWithCI(s, b, "club") THEN b + 4 ELSE b)
      ELSE s

\* re.sub(r'\s+by Hilton.*$', '', name, flags=re.I): cut at the leftmost match
CutByHilton(s) ==
    LET at(i) == IsSpace(Ch(s, i)) /\ StartsWithCI(s, SkipSpaces(s, i), "by hilton")
    IN  IF \E i \in 1..Len(s) : at(i)
          THEN SubSeq(s, 1, (CHOOSE i \in 1..Len(s) :
                               at(i) /\ \A j \in 1..(i - 1) : ~at(j)) - 1)
          ELSE s

\* re.sub(r',?\s*a Hilton.*$', '', name, flags=re.I): cut at the leftmost match
CutAHilton(s) ==
    LET at(i) == \/ Ch(s, i) = "," /\ StartsWithCI(s, SkipSpaces(s, i + 1), "a hilton")
                 \/ StartsWithCI(s, SkipSpaces(s, i), "a hilton")
    IN  IF \E i \in 1..Len(s) : at(i)
          THEN SubSeq(s, 1, (CHOOSE i \in 1..Len(s) :
                               at(i) /\ \A j \in 1..(i - 1) : ~at(j)) - 1)
          ELSE s

\* TUGScraper._normalize_resort_name
tug_normalize_resort_name(name) ==
    IF name = "" THEN ""
    ELSE lower(JoinSplit(DashToSpace(StripHGV(StripBrand(name)), 1), 1))

\* RedWeekScraper._normalize_resort_name
redweek_normalize_resort_name(name) ==
    IF name = "" THEN ""
    ELSE lower(JoinSplit(DashToSpace(
            CutByHilton(StripHGV(StripBrandNoTrail(name))), 1), 1))

\* SMTSNScraper._normalize_resort_name
smtsn_normalize_resort_name(name) ==
    IF name = "" THEN ""
    ELSE lower(JoinSplit(DashToSpace(
            CutAHilton(CutByHilton(StripHGV(StripBrandNoTrail(name)))), 1), 1))

Extractors == {"tug", "redweek", "smtsn"}

\* listing['resort_name_normalized'] = self._normalize_resort_name(...)
ExtractorKey(e, name) ==
    CASE e = "tug" -> tug_normalize_resort_name(name)
      [] e = "redweek" -> redweek_normalize_resort_name(name)
      [] e = "smtsn" -> smtsn_normalize_resort_name(name)

MaxFrags == 3

\* what the names passed are made of
Fragments == {"The ", "HGVC ", "Hilton Grand Vacations Club ", "at the ", "by ",
              "-", " ", "Elara"}

NormIdle ==
    /\ npc = "input"
    /\ raw_name = ""
    /\ nfrags = 0
    /\ normalized = ""
    /\ listing_key = [e \in Extractors |-> ""]

\* the caller's name, a fragment longer
AppendFragment(f) ==
    /\ npc = "input"
    /\ nfrags < MaxFrags
    /\ raw_name' = raw_name \o f
    /\ nfrags' = nfrags + 1
    /\ UNCHANGED <<npc, normalized, listing_key>>

\* normalize_resort_name(raw_name), and the extractors' own normalisers on the
\* same name
NormalizeName ==
    /\ npc = "input"
    /\ normalized' = normalize_resort_name(raw_name)
    /\ listing_key' = [e \in Extractors |-> ExtractorKey(e, raw_name)]
    /\ npc' = "done"
    /\ UNCHANGED <<raw_name, nfrags>>

NormNext ==
    \/ \E f \in Fragments : AppendFragment(f) /\ NormFrame
    \/ NormalizeName /\ NormFrame

-----------------------------------------------------------------------------
(* Resort matching: get_canonical_name, match_resort_to_reference *)

\* RESORT_ALIASES, in the order of the dict
RESORT_ALIASES == <<
    [canonical |-> "elara", aliases |-> <<"elara", "elara grand", "elara by hilton">>],
    [canonical |-> "boulevard",
     aliases |-> <<"on the boulevard", "boulevard", "las vegas boulevard">>],
    [canonical |-> "flamingo", aliases |-> <<"at the flamingo", "flamingo">>],
    [canonical |-> "trump", aliases |-> <<"trump international", "trump">>],
    [canonical |-> "paradise", aliases |-> <<"paradise", "paradise las vegas">>],
    [canonical |-> "parc soleil", aliases |-> <<"parc soleil", "parc soliel">>],
    [canonical |-> "seaworld", aliases |-> <<"at seaworld", "seaworld", "sea world">>],
    [canonical |-> "tuscany village", aliases |-> <<"tuscany village", "tuscany">>],
    [canonical |-> "ocean tower", aliases |-> <<"ocean tower", "waikoloa ocean tower">>],
    [canonical |-> "bay club", aliases |-> <<"bay club", "waikoloa bay club">>],
    [canonical |-> "kings land",
     aliases |-> <<"kings land", "king's land", "kingsland">>],
    [canonical |-> "grand islander", aliases |-> <<"grand islander">>],
    [canonical |-> "lagoon tower", aliases |-> <<"lagoon tower", "waikiki lagoon tower">>],
    [canonical |-> "kalia", aliases |-> <<"kalia tower", "kalia suites">>],
    [canonical |-> "west 57th",
     aliases |-> <<"west 57th", "west 57", "w 57th", "57th street">>],
    [canonical |-> "anderson ocean", aliases |-> <<"anderson ocean", "ocean plaza">>],
    [canonical |-> "mcalpin", aliases |-> <<"mcalpin", "mcalpin ocean plaza">>],
    [canonical |-> "marbrisa", aliases |-> <<"marbrisa", "carlsbad">>],
    [canonical |-> "sunrise lodge", aliases |-> <<"sunrise lodge", "park city">>],
    [canonical |-> "valdoro", aliases |-> <<"valdoro", "breckenridge">>],
    [canonical |-> "craigendarroch", aliases |-> <<"craigendarroch", "scotland">>] >>

\* sub in s
Contains(sub, s) ==
    \/ sub = ""
    \/ \E i \in 1..(Len(s) - Len(sub) + 1) : SubSeq(s, i, i + Len(sub) - 1) = sub

\* some alias of entry k is in the name
AliasHit(k, name) ==
    \E a \in DOMAIN RESORT_ALIASES[k].aliases :
        Contains(RESORT_ALIASES[k].aliases[a], name)

\* get_canonical_name: the canonical of the first entry with an alias in the
\* lowercased name, "" for None
get_canonical_name(name) ==
    LET name_lower == lower(name)
        hits == {k \in DOMAIN RESORT_ALIASES : AliasHit(k, name_lower)}
    IN  IF hits = {} THEN ""
        ELSE RESORT_ALIASES[CHOOSE k \in hits : \A h \in hits : k <= h].canonical

\* the characters of the names in code point order
CodePoints == " ',-0123456789ABCDEFGHIJKLMNOPQRSTUVWXYZ_abcdefghijklmnopqrstuvwxyz"

Ord(c) == CHOOSE i \in 1..Len(CodePoints) : Ch(CodePoints, i) = c

\* a < b for str
RECURSIVE StrLess(_, _)
StrLess(a, b) ==
    IF b = "" THEN FALSE
    ELSE IF a = "" THEN TRUE
    ELSE IF Ch(a, 1) = Ch(b, 1) THEN StrLess(From(a, 2), From(b, 2))
    ELSE Ord(Ch(a, 1)) < Ord(Ch(b, 1))

\* s.split(): the words between runs of white space, from position i
RECURSIVE Split(_, _)
Split(s, i) ==
    LET a == SkipSpaces(s, i)
        b == CHOOSE e \in a..(Len(s) + 1) :
                 /\ e > Len(s) \/ IsSpace(Ch(s, e))
                 /\ \A j \in a..(e - 1) : ~IsSpace(Ch(s, j))
    IN  IF a > Len(s) THEN <<>> ELSE <<SubSeq(s, a, b - 1)>> \o Split(s, b)

\* one word put in its place in a sorted list
RECURSIVE Insert(_, _)
Insert(w, ws) ==
    IF ws = <<>> THEN <<w>>
    ELSE IF StrLess(w, ws[1]) THEN <<w>> \o ws
    ELSE <<ws[1]>> \o Insert(w, Tail(ws))

\* sorted(words)
RECURSIVE Sorted(_)
Sorted(ws) == IF ws = <<>> THEN <<>> ELSE Insert(ws[1], Sorted(Tail(ws)))

\* " ".join(words)
RECURSIVE Join(_)
Join(ws) ==
    IF ws = <<>> THEN ""
    ELSE IF Len(ws) = 1 THEN ws[1]
    ELSE ws[1] \o " " \o Join(Tail(ws))

Max(a, b) == IF a >= b THEN a ELSE b

\* one row of the longest-common-subsequence table: the row of character c
\* after the row prev, over the characters of b
RECURSIVE LcsRow(_, _, _, _)
LcsRow(c, b, prev, cur) ==
    IF Len(cur) = Len(b) THEN cur
    ELSE LET j == Len(cur) + 1
             diag == IF j = 1 THEN 0 ELSE prev[j - 1]
             left == IF j = 1 THEN 0 ELSE cur[j - 1]
             v == IF c = Ch(b, j) THEN diag + 1 ELSE Max(prev[j], left)
         IN  LcsRow(c, b, prev, Append(cur, v))

RECURSIVE LcsRows(_, _, _, _)
LcsRows(a, b, i, prev) ==
    IF i > Len(a) THEN prev
    ELSE CHOOSE last \in {LcsRows(a, b, i + 1, row) :
                            row \in {LcsRow(Ch(a, i), b, prev, <<>>)}} : TRUE

\* length of the longest common subsequence of a and b
Lcs(a, b) ==
    IF a = "" \/ b = "" THEN 0
    ELSE LcsRows(a, b, 1, [j \in 1..Len(b) |-> 0])[Len(b)]

\* fuzz.token_sort_ratio(a, b) as the fraction <<numerator, denominator>>:
\* the Indel similarity 100 * 2 * lcs / (len1 + len2) of the two strings with
\* their words sorted
token_sort_ratio(a, b) ==
    LET x == Join(Sorted(Split(a, 1)))
        y == Join(Sorted(Split(b, 1)))
    IN  IF Len(x) + Len(y) = 0 THEN <<100, 1>>
        ELSE <<200 * Lcs(x, y), Len(x) + Len(y)>>

\* p >= q, p > q for fractions with positive denominators
FracGeq(p, q) == p[1] * q[2] >= q[1] * p[2]
FracGt(p, q) == p[1] * q[2] > q[1] * p[2]

\* None, as a result of the shape of the others
NoMatch == [ref |-> "", score |-> <<0 - 1, 1>>]

First(S) == CHOOSE i \in S : \A j \in S : i <= j
Last(S) == CHOOSE i \in S : \A j \in S : i >= j

\* [normalize_resort_name(r) for r in reference_resorts]
NormalizedRefs(refs) ==
    LET RECURSIVE norm(_)
        norm(i) == IF i > Len(refs) THEN <<>>
                   ELSE <<normalize_resort_name(refs[i])>> \o norm(i + 1)
    IN  norm(1)

\* tier 1: the references whose normalised name contains the canonical name or
\* is contained in it
AliasTier(canonical, ref_norms) ==
    {i \in DOMAIN ref_norms :
        Contains(canonical, ref_norms[i]) \/ Contains(ref_norms[i], canonical)}

\* tier 2: containment of the normalised names, either way
SubstringTier(name, ref_norms) ==
    {i \in DOMAIN ref_norms :
        Contains(name, ref_norms[i]) \/ Contains(ref_norms[i], name)}

\* tier 3: process.extract(normalized, list(normalized_refs.keys()),
\* scorer=fuzz.token_sort_ratio, limit=1): the keys are the normalised names in
\* the order they first occur, the value of a key is the last reference with
\* that normalised name, the best is the highest score and the earliest key
\* among equals
FuzzyKeys(ref_norms) ==
    {k \in DOMAIN ref_norms : \A j \in 1..(k - 1) : ref_norms[j] # ref_norms[k]}

\* the scores of the keys, 0 at the other indexes
FuzzyScores(name, ref_norms) ==
    LET RECURSIVE scores(_)
        scores(i) ==
            IF i > Len(ref_norms) THEN <<>>
            ELSE <<IF i \in FuzzyKeys(ref_norms)
                     THEN token_sort_ratio(name, ref_norms[i])
                     ELSE <<0, 1>> >> \o scores(i + 1)
    IN  scores(1)

FuzzyBest(ref_norms, scores) ==
    CHOOSE b \in FuzzyKeys(ref_norms) :
        \A j \in FuzzyKeys(ref_norms) :
            /\ FracGeq(scores[b], scores[j])
            /\ j < b => FracGt(scores[b], scores[j])

FuzzyTier(refs, ref_norms, scores, least) ==
    LET best == FuzzyBest(ref_norms, scores)
        original == Last({o \in DOMAIN refs : ref_norms[o] = ref_norms[best]})
    IN  IF FracGeq(scores[best], <<least, 1>>)
          THEN [ref |-> refs[original], score |-> scores[best]]
          ELSE NoMatch

\* the cascade on the normalised names
Cascade(nname, canonical, refs, ref_norms, least) ==
    LET t1 == IF canonical = "" THEN {} ELSE AliasTier(canonical, ref_norms)
        t2 == SubstringTier(nname, ref_norms)
    IN  IF nname = "" \/ refs = <<>> THEN NoMatch
        ELSE IF t1 # {} THEN [ref |-> refs[First(t1)], score |-> <<100, 1>>]
        ELSE IF t2 # {} THEN [ref |-> refs[First(t2)], score |-> <<95, 1>>]
        ELSE CHOOSE r \in {FuzzyTier(refs, ref_norms, scores, least) :
                             scores \in {FuzzyScores(nname, ref_norms)}} : TRUE

match_resort_to_reference(name, refs, least) ==
    CHOOSE r \in {Cascade(nname, canonical, refs, ref_norms, least) :
                    nname \in {normalize_resort_name(name)},
                    canonical \in {get_canonical_name(normalize_resort_name(name))},
                    ref_norms \in {NormalizedRefs(refs)}} : TRUE

MaxRefs == 2

\* the listing names and reference names passed
ListingNames == {"", "HGVC Elara", "McAlpin Ocean Plaza", "Tower Lagoon",
                 "Kalia", "Bay Clubs"}
ReferenceNames == {"Elara", "McAlpin", "Anderson Ocean Club", "Lagoon Tower",
                   "Kalia Tower", "Bay Club", "HGVC"}
Thresholds == {75, 100}

MatchIdle ==
    /\ mpc = "args"
    /\ listing_resort = ""
    /\ reference_resorts = <<>>
    /\ threshold = 75
    /\ match_result = NoMatch

\* the caller's arguments
ChooseListing(n, t) ==
    /\ mpc = "args"
    /\ reference_resorts = <<>>
    /\ listing_resort' = n
    /\ threshold' = t
    /\ UNCHANGED <<mpc, reference_resorts, match_result>>

AppendReference(r) ==
    /\ mpc = "args"
    /\ Len(reference_resorts) < MaxRefs
    /\ reference_resorts' = Append(reference_resorts, r)
    /\ UNCHANGED <<mpc, listing_resort, threshold, match_result>>

\* match_resort_to_reference(listing_resort, reference_resorts, threshold)
Match ==
    /\ mpc = "args"
    /\ match_result' =
           match_resort_to_reference(listing_resort, reference_resorts, threshold)
    /\ mpc' = "done"
    /\ UNCHANGED <<listing_resort, reference_resorts, threshold>>

MatchNext ==
    \/ \E n \in ListingNames, t \in Thresholds : ChooseListing(n, t) /\ MatchFrame
    \/ \E r \in ReferenceNames : AppendReference(r) /\ MatchFrame
    \/ Match /\ MatchFrame

-----------------------------------------------------------------------------
(* Deal metrics: utils/calculator.py *)

CLOSING_COSTS == 1100
EOY_CLUB_DUES_ANNUAL == 209

\* GRADE_THRESHOLDS: 0.10, 0.15, 0.20 as fractions
GRADE_THRESHOLDS ==
    [excellent |-> <<10, 100>>, good |-> <<15, 100>>, fair |-> <<20, 100>>]

\* None for a str, and a str key that is not in the dict
NoneStr == "<None>"
NoKeyStr == "<no key>"

\* a quotient that is None, and one that is float('nan')
NoneFrac == <<NoneNum, 1>>
NaNFrac == <<NaN, 1>>

\* not x, for a nullable number: None and 0 are falsy, float('nan') is not
Falsy(x) == x = NoneNum \/ x = 0

\* x or y
Or(x, y) == IF Falsy(x) THEN y ELSE x

\* listing.get(key, default)
DictGet(cell, default) == IF cell = NoKey THEN default ELSE cell

\* usage and usage.upper().startswith('EOY')
IsEOY(usage) == usage # NoneStr /\ usage # "" /\ StartsWithCI(usage, 1, "eoy")

\* the halving rounded up instead of down
calculate_annual_points_ceil(points, usage) ==
    IF Falsy(points) THEN 0
    ELSE IF IsEOY(usage) THEN (IF points = NaN THEN NaN ELSE (points + 1) \div 2)
    ELSE points

calculate_annual_points(points, usage) ==
    IF Falsy(points) THEN 0
    ELSE IF IsEOY(usage) THEN (IF points = NaN THEN NaN ELSE points \div 2)
    ELSE points

calculate_mf_per_point(annual_mf, annual_points) ==
    IF Falsy(annual_mf) \/ Falsy(annual_points) \/ annual_points = 0 THEN NoneFrac
    ELSE IF annual_mf = NaN \/ annual_points = NaN THEN NaNFrac
    ELSE <<annual_mf, annual_points>>

\* every usage charged as Annual: ten fees and no club dues
calculate_10yr_cost_annual_only(asking_price, annual_mf, usage) ==
    IF asking_price = NoneNum \/ annual_mf = NoneNum THEN NoneNum
    ELSE IF asking_price = NaN \/ annual_mf = NaN THEN NaN
    ELSE asking_price + CLOSING_COSTS + (annual_mf * 10)

calculate_10yr_cost(asking_price, annual_mf, usage) ==
    IF asking_price = NoneNum \/ annual_mf = NoneNum THEN NoneNum
    ELSE IF asking_price = NaN \/ annual_mf = NaN THEN NaN
    ELSE IF IsEOY(usage)
      THEN asking_price + CLOSING_COSTS + (annual_mf * 5) + (EOY_CLUB_DUES_ANNUAL * 10)
    ELSE asking_price + CLOSING_COSTS + (annual_mf * 10)

\* p <= q for fractions with positive denominators
FracLeq(p, q) == p[1] * q[2] <= q[1] * p[2]

\* every comparison with float('nan') is False
get_deal_grade(mf_per_point) ==
    IF mf_per_point = NoneFrac THEN "unknown"
    ELSE IF mf_per_point # NaNFrac /\ FracLeq(mf_per_point, GRADE_THRESHOLDS.excellent)
      THEN "excellent"
    ELSE IF mf_per_point # NaNFrac /\ FracLeq(mf_per_point, GRADE_THRESHOLDS.good)
      THEN "good"
    ELSE IF mf_per_point # NaNFrac /\ FracLeq(mf_per_point, GRADE_THRESHOLDS.fair)
      THEN "fair"
    ELSE "poor"

\* round(x, 4) of a quotient, in ten-thousandths: the nearest multiple (no
\* quotient of the tables below lies half way between two)
Round4(x) == (2 * 10000 * x[1] + x[2]) \div (2 * x[2])

\* round(mf_per_point, 4) if mf_per_point else None
ReportedMfPerPoint(x) ==
    IF x = NoneFrac \/ x[1] = 0 THEN NoneNum
    ELSE IF x = NaNFrac THEN NaN
    ELSE Round4(x)

\* round(total_10yr, 2) if total_10yr else None: the totals are whole dollars
ReportedTotal(t) == IF Falsy(t) THEN NoneNum ELSE t

\* the fee calculate_deal_metrics uses: listing.get('annual_mf') or mf_from_reference
FeeUsed(listing, mf_from_reference) ==
    Or(DictGet(listing.annual_mf, NoneNum), mf_from_reference)

calculate_deal_metrics(listing, mf_from_reference) ==
    LET points == Or(DictGet(listing.points, 0), 0)
        usage == IF listing.usage = NoKeyStr THEN "Annual" ELSE listing.usage
        asking_price == Or(DictGet(listing.asking_price, 0), 0)
        annual_mf == FeeUsed(listing, mf_from_reference)
        annual_points == calculate_annual_points(points, usage)
        mf_per_point == calculate_mf_per_point(annual_mf, annual_points)
        total_10yr == calculate_10yr_cost(asking_price, annual_mf, usage)
    IN  [annual_points |-> annual_points,
         mf_per_point |-> ReportedMfPerPoint(mf_per_point),
         total_10yr |-> ReportedTotal(total_10yr),
         deal_grade |-> get_deal_grade(mf_per_point)]

\* pd.DataFrame(data): a None of a column that holds a number in another row is
\* float('nan'); a column of Nones only keeps them
Cell(frame, i, col) ==
    IF frame[i][col] = NoneNum /\ \E j \in DOMAIN frame : frame[j][col] # NoneNum
      THEN NaN
      ELSE frame[i][col]

\* row.to_dict() of row i
RowDict(frame, i) ==
    [resort_name_normalized |-> frame[i].resort_name_normalized,
     points |-> Cell(frame, i, "points"),
     usage |-> frame[i].usage,
     asking_price |-> Cell(frame, i, "asking_price"),
     annual_mf |-> Cell(frame, i, "annual_mf")]

\* mf_lookup[key]: the fee of the last reference row with that key, None
\* without one
MfLookup(refs, resort_norm) ==
    LET hits == {i \in DOMAIN refs :
                    /\ lower(refs[i].resort_name_normalized) # ""
                    /\ lower(refs[i].resort_name_normalized) = lower(resort_norm)}
    IN  IF resort_norm = "" \/ hits = {} THEN NoneNum
        ELSE refs[CHOOSE i \in hits : \A j \in hits : j <= i].annual_mf

\* enrich_listings_dataframe: the metrics joined to the rows, in row order
enrich_listings_dataframe(frame, refs) ==
    [i \in DOMAIN frame |->
        calculate_deal_metrics(RowDict(frame, i),
                               MfLookup(refs, frame[i].resort_name_normalized))]

MaxListings == 2
MaxRefRows == 1

\* the values of a direct call
CallPoints == {NoneNum, 0, 5000, 7001, 8000}
CallUsages == {NoneStr, "Annual", "EOY", "EOY-Even", "EOY-Odd", "Biennial"}
CallPrices == {NoneNum, 0, 5000, 10000}
CallFees == {NoneNum, 0, 750, 800, 1000, 2000}

\* the listings of the store and the reference rows
ListingRows ==
    [resort_name_normalized : {"elara", "the elara"},
     points : {NoneNum, 8000},
     usage : {"Annual"},
     asking_price : {NoneNum, 10000},
     annual_mf : {NoneNum, 0, 800}]
ReferenceRows == [resort_name_normalized : {"elara"}, annual_mf : {1000}]

NoCall ==
    [points |-> NoneNum, usage |-> NoneStr, asking_price |-> NoneNum,
     annual_mf |-> NoneNum, annual_points |-> 0, mf_per_point |-> NoneFrac,
     total_10yr |-> NoneNum, deal_grade |-> "unknown"]

CalcIdle ==
    /\ cpc = "table"
    /\ listings_df = <<>>
    /\ mf_ref_df = <<>>
    /\ metrics = <<>>
    /\ call = NoCall

\* the four calculators, each called on the caller's own values (the grade
\* on the quotient just returned)
Calculate(points, usage, asking_price, annual_mf) ==
    /\ cpc = "table"
    /\ listings_df = <<>> /\ mf_ref_df = <<>>
    /\ call' =
         LET mf_per_point == calculate_mf_per_point(annual_mf, points)
         IN  [points |-> points, usage |-> usage, asking_price |-> asking_price,
              annual_mf |-> annual_mf,
              annual_points |-> calculate_annual_points(points, usage),
              mf_per_point |-> mf_per_point,
              total_10yr |-> calculate_10yr_cost(asking_price, annual_mf, usage),
              deal_grade |-> get_deal_grade(mf_per_point)]
    /\ cpc' = "called"
    /\ UNCHANGED <<listings_df, mf_ref_df, metrics>>

\* a listing stored, a reference row imported
StoreListing(row) ==
    /\ cpc = "table"
    /\ Len(listings_df) < MaxListings
    /\ listings_df' = Append(listings_df, row)
    /\ UNCHANGED <<cpc, mf_ref_df, metrics, call>>

StoreReference(row) ==
    /\ cpc = "table"
    /\ Len(mf_ref_df) < MaxRefRows
    /\ mf_ref_df' = Append(mf_ref_df, row)
    /\ UNCHANGED <<cpc, listings_df, metrics, call>>

\* enriched_df = enrich_listings_dataframe(listings_df, mf_ref_df)
Enrich ==
    /\ cpc = "table"
    /\ metrics' = enrich_listings_dataframe(listings_df, mf_ref_df)
    /\ cpc' = "done"
    /\ UNCHANGED <<listings_df, mf_ref_df, call>>

CalcNext ==
    \/ \E p \in CallPoints, u \in CallUsages, a \in CallPrices, f \in CallFees :
           Calculate(p, u, a, f) /\ CalcFrame
    \/ \E row \in ListingRows : StoreListing(row) /\ CalcFrame
    \/ \E row \in ReferenceRows : StoreReference(row) /\ CalcFrame
    \/ Enrich /\ CalcFrame

-----------------------------------------------------------------------------
(* Listing filters: apply_filters *)

\* the defaults of config.py; fee-per-point is counted in ten-thousandths, so
\* 0.30 is 3000
DEFAULT_POINTS_RANGE == <<5000, 30000>>
DEFAULT_PRICE_RANGE == <<0, 20000>>
DEFAULT_MF_PER_POINT_MAX == 3000

\* the options of the season and usage radios (Korean labels in the source)
PlatinumOnly == "Platinum only"
AnnualOnly == "Annual only"
EOYIncluded == "EOY included"
AllOption == "all"

\* a key that the filters dict does not hold, and one that it holds
Omitted(default) == [present |-> FALSE, value |-> default]
Given(v) == [present |-> TRUE, value |-> v]

\* filters.get(key, default)
FilterGet(f, default) == IF f.present THEN f.value ELSE default

\* Series.isna()
IsNa(x) == x = NoneNum \/ x = NaN

\* lo <= x <= hi elementwise: False on a null
InRange(x, range) == ~IsNa(x) /\ x >= range[1] /\ x <= range[2]

\* filtered['season'].str.contains('Platinum', case=False, na=False)
SeasonKept(f, row) ==
    FilterGet(f.season, NoneStr) = PlatinumOnly =>
        row.season # NoneStr /\ Contains("platinum", lower(row.season))

\* filtered['usage'] == 'Annual', filtered['usage'].isin([...])
UsageKept(f, row) ==
    LET usage_filter == FilterGet(f.usage, AllOption)
    IN  /\ usage_filter = AnnualOnly => row.usage = "Annual"
        /\ usage_filter = EOYIncluded =>
               row.usage \in {"Annual", "EOY", "EOY-Even", "EOY-Odd"}

\* if locations: filtered['location'].isin(locations)
LocationKept(f, row) ==
    LET locations == FilterGet(f.locations, {})
    IN  locations # {} => row.location \in locations

\* the range selection without its isna() alternative
PointsKeptInRangeOnly(f, row) ==
    InRange(row.points, FilterGet(f.points_range, DEFAULT_POINTS_RANGE))

\* isna() | ((>= lo) & (<= hi))
PointsKept(f, row) ==
    \/ IsNa(row.points)
    \/ InRange(row.points, FilterGet(f.points_range, DEFAULT_POINTS_RANGE))

PriceKept(f, row) ==
    \/ IsNa(row.asking_price)
    \/ InRange(row.asking_price, FilterGet(f.price_range, DEFAULT_PRICE_RANGE))

\* isna() | (<= max_mf)
MfKept(f, row) ==
    \/ IsNa(row.mf_per_point)
    \/ row.mf_per_point <= FilterGet(f.max_mf_per_point, DEFAULT_MF_PER_POINT_MAX)

\* active_sources = [s for s, enabled in sources.items() if enabled];
\* if active_sources: filtered['source'].isin(active_sources)
SourceKept(f, row) ==
    LET active_sources == FilterGet(f.sources, {})
    IN  active_sources # {} => row.source \in active_sources

\* apply_filters: the seven selections one after the other (every column is
\* in the enriched table)
apply_filters(frame, f) ==
    LET Season(row) == SeasonKept(f, row)
        Usage(row) == UsageKept(f, row)
        Location(row) == LocationKept(f, row)
        Points(row) == PointsKept(f, row)
        Price(row) == PriceKept(f, row)
        Mf(row) == MfKept(f, row)
        Source(row) == SourceKept(f, row)
    IN  IF frame = <<>> THEN frame
        ELSE SelectSeq(SelectSeq(SelectSeq(SelectSeq(SelectSeq(SelectSeq(SelectSeq(
                 frame, Season), Usage), Location), Points), Price), Mf), Source)

MaxFilterRows == 2

\* the rows of the enriched table
EnrichedRows == {
    [season |-> "Platinum", usage |-> "Annual", location |-> "Las Vegas",
     points |-> 8000, asking_price |-> 10000, mf_per_point |-> 1000, source |-> "tug"],
    [season |-> NoneStr, usage |-> NoneStr, location |-> "Other",
     points |-> NoneNum, asking_price |-> NoneNum, mf_per_point |-> NoneNum,
     source |-> "redweek"],
    [season |-> "Gold", usage |-> "EOY", location |-> "Hawaii",
     points |-> 3000, asking_price |-> 25000, mf_per_point |-> 3500, source |-> "smtsn"],
    [season |-> "platinum plus", usage |-> "Annual", location |-> "Las Vegas",
     points |-> NaN, asking_price |-> 10000, mf_per_point |-> 1000, source |-> "tug"],
    [season |-> "Platinum", usage |-> "Annual", location |-> "Las Vegas",
     points |-> 8000, asking_price |-> NaN, mf_per_point |-> NaN, source |-> "redweek"] }

\* the filters dicts passed: every key held or not
FilterDicts ==
    [season : {Omitted(NoneStr), Given(PlatinumOnly)},
     usage : {Omitted(NoneStr), Given(AnnualOnly), Given(EOYIncluded)},
     locations : {Omitted({}), Given({"Las Vegas"})},
     points_range : {Omitted(<<0, 0>>), Given(<<0, 50000>>), Given(<<10000, 20000>>)},
     price_range : {Omitted(<<0, 0>>), Given(<<0, 5000>>)},
     max_mf_per_point : {Omitted(0), Given(500)},
     sources : {Omitted({}), Given({"tug", "redweek", "smtsn"}), Given({"redweek"}),
                Given({})}]

EmptyFilters ==
    [season |-> Omitted(NoneStr), usage |-> Omitted(NoneStr),
     locations |-> Omitted({}), points_range |-> Omitted(<<0, 0>>),
     price_range |-> Omitted(<<0, 0>>), max_mf_per_point |-> Omitted(0),
     sources |-> Omitted({})]

FilterIdle ==
    /\ apc = "table"
    /\ enriched_df = <<>>
    /\ filters_dict = EmptyFilters
    /\ filtered = <<>>

\* one more row in the table passed
AppendRow(row) ==
    /\ apc = "table"
    /\ Len(enriched_df) < MaxFilterRows
    /\ enriched_df' = Append(enriched_df, row)
    /\ UNCHANGED <<apc, filters_dict, filtered>>

\* filtered_df = apply_filters(enriched_df, filters)
ApplyFilters(f) ==
    /\ apc = "table"
    /\ filters_dict' = f
    /\ filtered' = apply_filters(enriched_df, f)
    /\ apc' = "done"
    /\ UNCHANGED enriched_df

FilterNext ==
    \/ \E row \in EnrichedRows : AppendRow(row) /\ FilterFrame
    \/ \E f \in FilterDicts : ApplyFilters(f) /\ FilterFrame

-----------------------------------------------------------------------------
(* Reference-fee import: import_mf_csv *)

\* an empty cell of resort_name as pandas reads it: float('nan')
NaNName == "float('nan')"

\* the rows of the tables imported: a column that is not there is NoKey, an
\* empty cell NaN
ImportRows ==
    {[resort_name |-> "The Elara", points |-> 8000, annual_mf |-> 1828, year |-> 2024],
     [resort_name |-> "The Elara", points |-> NoKey, annual_mf |-> 1828, year |-> NoKey],
     [resort_name |-> "", points |-> 8000, annual_mf |-> 1828, year |-> 2024],
     [resort_name |-> "The Elara", points |-> 8000, annual_mf |-> 0, year |-> 2024],
     [resort_name |-> "The Elara", points |-> 8000, annual_mf |-> NaN, year |-> 2024],
     [resort_name |-> "The Elara", points |-> NaN, annual_mf |-> 1828, year |-> 2024],
     [resort_name |-> NaNName, points |-> 8000, annual_mf |-> 1828, year |-> 2024]}

\* row.get(key, default)
RowGet(cell, default) == IF cell = NoKey THEN default ELSE cell

\* `if not resort_name or not annual_mf: continue`; NaN is true
Skipped(row) == row.resort_name = "" \/ RowGet(row.annual_mf, 0) = 0

\* what building mf_data raises: normalize_resort_name of a float (TypeError),
\* int(nan) of points or of year (ValueError); "" when it raises nothing
RowRaises(row) ==
    IF row.resort_name = NaNName
      THEN "expected string or bytes-like object, got 'float'"
    ELSE IF row.points = NaN \/ row.year = NaN
      THEN "cannot convert float NaN to integer"
    ELSE ""

\* annual_mf / points if points > 0 else 0, as a fraction
MfPerPoint(annual_mf, points) ==
    IF points # NaN /\ points > 0
      THEN [num |-> annual_mf, den |-> points]
      ELSE [num |-> 0, den |-> 1]

\* the mf_data of a row, as MFReference(**mf_data) stores it
MfData(row) ==
    LET points == RowGet(row.points, 0) IN
    [resort_name |-> row.resort_name,
     resort_name_normalized |-> normalize_resort_name(row.resort_name),
     points |-> points,
     annual_mf |-> row.annual_mf,
     mf_per_point |-> MfPerPoint(row.annual_mf, points),
     year |-> RowGet(row.year, 2025),
     source |-> "manual"]

\* a DELETE that is committed at once
clear_mf_references_committed(committed) ==
    [committed |-> <<>>, session |-> <<>>]

\* clear_mf_references(session): the DELETE is in the session's transaction
clear_mf_references(committed) ==
    [committed |-> committed, session |-> <<>>]

\* add_mf_reference(session, mf_data)
add_mf_reference(session, mf_data) == Append(session, mf_data)

\* annual_mf is NOT NULL and SQLite stores NaN as NULL: the INSERT fails
ViolatesNotNull(session) ==
    \E i \in DOMAIN session : session[i].annual_mf = NaN

MaxImports == 2
MaxRows == 2

\* the DataFrames passed
Tables == SeqsUpTo(ImportRows, MaxRows)

NoResult == [success |-> FALSE, count |-> 0, error |-> "NULL"]

ImportIdle ==
    /\ mf_db = <<>>
    /\ mf_sess = <<>>
    /\ ipc = "idle"
    /\ imports = 0
    /\ df = <<>>
    /\ irow = 1
    /\ count = 0
    /\ mf_before = <<>>
    /\ iresult = NoResult

\* session = get_session(); clear_mf_references(session); count = 0
ImportStart(table) ==
    /\ ipc = "idle"
    /\ imports < MaxImports
    /\ imports' = imports + 1
    /\ df' = table
    /\ mf_before' = mf_db
    /\ mf_db' = clear_mf_references(mf_db).committed
    /\ mf_sess' = clear_mf_references(mf_db).session
    /\ irow' = 1
    /\ count' = 0
    /\ ipc' = "rows"
    /\ UNCHANGED iresult

\* one pass of the loop over df.iterrows()
ImportRow ==
    /\ ipc = "rows"
    /\ irow <= Len(df)
    /\ LET row == df[irow] IN
       IF Skipped(row)
         THEN /\ irow' = irow + 1
              /\ UNCHANGED <<mf_sess, count, ipc, iresult>>
       ELSE IF RowRaises(row) # ""
         THEN /\ iresult' = [success |-> FALSE, count |-> 0, error |-> RowRaises(row)]
              /\ ipc' = "except"
              /\ UNCHANGED <<mf_sess, count, irow>>
         ELSE /\ mf_sess' = add_mf_reference(mf_sess, MfData(row))
              /\ count' = count + 1
              /\ irow' = irow + 1
              /\ UNCHANGED <<ipc, iresult>>
    /\ UNCHANGED <<mf_db, imports, df, mf_before>>

\* session.commit(); return {'success': True, 'count': count}
ImportCommit ==
    /\ ipc = "rows"
    /\ irow > Len(df)
    /\ IF ViolatesNotNull(mf_sess)
         THEN /\ iresult' = [success |-> FALSE, count |-> 0,
                             error |-> "NOT NULL constraint failed: mf_reference.annual_mf"]
              /\ ipc' = "except"
              /\ UNCHANGED mf_db
         ELSE /\ mf_db' = mf_sess
              /\ iresult' = [success |-> TRUE, count |-> count, error |-> "NULL"]
              /\ ipc' = "finally"
    /\ UNCHANGED <<mf_sess, imports, df, irow, count, mf_before>>

\* ... or session.commit() raises
ImportCommitRaises(error) ==
    /\ ipc = "rows"
    /\ irow > Len(df)
    /\ iresult' = [success |-> FALSE, count |-> 0, error |-> error]
    /\ ipc' = "except"
    /\ UNCHANGED <<mf_db, mf_sess, imports, df, irow, count, mf_before>>

\* except Exception as e: session.rollback();
\* return {'success': False, 'error': str(e)}
ImportFail ==
    /\ ipc = "except"
    /\ mf_sess' = mf_db
    /\ ipc' = "finally"
    /\ UNCHANGED <<mf_db, imports, df, irow, count, mf_before, iresult>>

\* finally: session.close(); the call is over and its locals are gone
ImportClose ==
    /\ ipc = "finally"
    /\ ipc' = "idle"
    /\ mf_sess' = <<>>
    /\ df' = <<>>
    /\ irow' = 1
    /\ count' = 0
    /\ mf_before' = mf_db
    /\ iresult' = NoResult
    /\ UNCHANGED <<mf_db, imports>>

ImportNext ==
    \/ \E table \in Tables : ImportStart(table) /\ ImportFrame
    \/ ImportRow /\ ImportFrame
    \/ ImportCommit /\ ImportFrame
    \/ ImportCommitRaises(StoreError) /\ ImportFrame
    \/ ImportFail /\ ImportFrame
    \/ ImportClose /\ ImportFrame

-----------------------------------------------------------------------------
(* Usage-cycle inference: the three extractors and extract_usage *)

\* the literals ws, with \s* between them, at position i of s
RECURSIVE MatchWords(_, _, _)
MatchWords(s, i, ws) ==
    IF ws = <<>> THEN TRUE
    ELSE /\ StartsWithCI(s, i, Head(ws))
         /\ MatchWords(s, SkipSpaces(s, i + Len(Head(ws))), Tail(ws))

\* re.search(r'\bw1\s*w2...', s)
SearchWords(s, ws) ==
    \E i \in 1..Len(s) : Boundary(s, i) /\ MatchWords(s, i, ws)

\* re.search(r'\btoken\b', s)
SearchToken(s, token) ==
    \E i \in 1..Len(s) :
        /\ Boundary(s, i)
        /\ StartsWithCI(s, i, token)
        /\ Boundary(s, i + Len(token))

\* TUGScraper._determine_usage(text)
tug_determine_usage(text) ==
    LET text_lower == lower(text) IN
    IF SearchWords(text_lower, <<"even", "year">>) THEN "EOY-Even"
    ELSE IF SearchWords(text_lower, <<"odd", "year">>) THEN "EOY-Odd"
    ELSE IF \/ SearchWords(text_lower, <<"every", "other", "year">>)
            \/ Contains("biennial", text_lower)
            \/ SearchToken(text_lower, "eoy")
      THEN "EOY"
    ELSE "Annual"

\* utils.matching.extract_usage(text)
extract_usage(text) ==
    LET text_lower == lower(text) IN
    IF SearchWords(text_lower, <<"even", "year">>) THEN "EOY-Even"
    ELSE IF SearchWords(text_lower, <<"odd", "year">>) THEN "EOY-Odd"
    ELSE IF \/ SearchWords(text_lower, <<"every", "other", "year">>)
            \/ Contains("biennial", text_lower)
            \/ SearchToken(text_lower, "eoy")
      THEN "EOY"
    ELSE "Annual"

\* SMTSNScraper.parse_listing_card: the usage read from the card's text
smtsn_usage(card_text) ==
    LET text_lower == lower(card_text) IN
    IF Contains("even year", text_lower) THEN "EOY-Even"
    ELSE IF Contains("odd year", text_lower) THEN "EOY-Odd"
    ELSE IF Contains("every other year", text_lower) \/ Contains("biennial", text_lower)
      THEN "EOY"
    ELSE "Annual"

\* RedWeekScraper.parse_listing_card: the usage read from the data-use attribute
redweek_usage(use) ==
    IF Contains("even", lower(use)) THEN "EOY-Even"
    ELSE IF Contains("odd", lower(use)) THEN "EOY-Odd"
    ELSE IF Contains("every other", lower(use)) \/ Contains("biennial", lower(use))
      THEN "EOY"
    ELSE "Annual"

\* the four implementations
UsageReaders == {"tug", "redweek", "smtsn", "extract_usage"}

UsageBy(reader, text) ==
    CASE reader = "tug" -> tug_determine_usage(text)
      [] reader = "redweek" -> redweek_usage(text)
      [] reader = "smtsn" -> smtsn_usage(text)
      [] reader = "extract_usage" -> extract_usage(text)

MaxWords == 3

\* what the texts read are made of
UsageWords == {"Even", "odd", " ", "year", "every other ", "Biennial", "EOY", "s"}

UsageIdle ==
    /\ upc = "input"
    /\ usage_text = ""
    /\ nwords = 0
    /\ usage_by = [reader \in UsageReaders |-> ""]

\* the text read, a word longer
AppendWord(w) ==
    /\ upc = "input"
    /\ nwords < MaxWords
    /\ usage_text' = usage_text \o w
    /\ nwords' = nwords + 1
    /\ UNCHANGED <<upc, usage_by>>

\* each of the four implementations on the same text
InferUsage ==
    /\ upc = "input"
    /\ usage_by' = [reader \in UsageReaders |-> UsageBy(reader, usage_text)]
    /\ upc' = "done"
    /\ UNCHANGED <<usage_text, nwords>>

UsageNext ==
    \/ \E w \in UsageWords : AppendWord(w) /\ UsageFrame
    \/ InferUsage /\ UsageFrame

-----------------------------------------------------------------------------
(* Location inference: infer_location and the extractors' location field *)

\* LOCATION_KEYWORDS, in the order of the dict
LOCATION_KEYWORDS ==
    << [location |-> "Las Vegas",
        keywords |-> <<"vegas", "elara", "boulevard", "flamingo", "trump", "paradise">>],
       [location |-> "Orlando",
        keywords |-> <<"orlando", "parc soleil", "seaworld", "tuscany", "international drive">>],
       [location |-> "Hawaii",
        keywords |-> <<"hawaii", "waikiki", "waikoloa", "maui", "kona", "kings land", "ocean tower", "grand islander", "lagoon tower", "kalia">>],
       [location |-> "New York",
        keywords |-> <<"new york", "manhattan", "midtown", "west 57">>],
       [location |-> "Miami",
        keywords |-> <<"miami", "south beach", "mcalpin">>],
       [location |-> "Park City",
        keywords |-> <<"park city", "sunrise">>],
       [location |-> "San Diego",
        keywords |-> <<"san diego", "marbrisa">>],
       [location |-> "Carlsbad",
        keywords |-> <<"carlsbad">>],
       [location |-> "Myrtle Beach",
        keywords |-> <<"myrtle", "anderson ocean", "ocean 22">>],
       [location |-> "Scotland",
        keywords |-> <<"scotland", "craigendarroch">>],
       [location |-> "Japan",
        keywords |-> <<"japan", "odawara", "okinawa", "sesoko">>],
       [location |-> "Italy",
        keywords |-> <<"italy", "tuscany">>] >>

\* any(kw in name_lower for kw in keywords) of entry k
KeywordHit(k, name_lower) ==
    \E j \in DOMAIN LOCATION_KEYWORDS[k].keywords :
        Contains(LOCATION_KEYWORDS[k].keywords[j], name_lower)

\* infer_location(resort_name), and each extractor's _infer_location, which is
\* the same code: the first entry with a keyword in the lowercased name
infer_location(resort_name) ==
    IF resort_name = "" THEN "Other"
    ELSE LET name_lower == lower(resort_name)
             hits == {k \in DOMAIN LOCATION_KEYWORDS : KeywordHit(k, name_lower)}
         IN  IF hits = {} THEN "Other"
             ELSE LOCATION_KEYWORDS[CHOOSE k \in hits : \A h \in hits : k <= h].location

\* SMTSNScraper.HGVC_RESORTS: (resort_name, location), passed to parse_listing_card
HGVC_RESORTS ==
    << <<"Elara, a Hilton Grand Vacations Club", "Las Vegas">>,
       <<"Hilton Grand Vacations Club on the Boulevard", "Las Vegas">>,
       <<"Hilton Grand Vacations Club at the Flamingo", "Las Vegas">>,
       <<"Hilton Grand Vacations Club at Trump International", "Las Vegas">>,
       <<"Hilton Grand Vacations Club on Paradise", "Las Vegas">>,
       <<"Hilton Grand Vacations Club at Parc Soleil", "Orlando">>,
       <<"Hilton Grand Vacations Club at SeaWorld", "Orlando">>,
       <<"Hilton Grand Vacations Club at Tuscany Village", "Orlando">>,
       <<"Hilton Grand Vacations Club at Las Palmeras", "Orlando">>,
       <<"Hilton Grand Vacations Club Ocean Tower", "Hawaii">>,
       <<"Hilton Grand Vacations Club at Kings Land", "Hawaii">>,
       <<"Hilton Grand Vacations Club at Lagoon Tower", "Hawaii">>,
       <<"Hilton Grand Vacations Club Grand Islander", "Hawaii">>,
       <<"Hilton Grand Vacations Club Grand Waikikian", "Hawaii">>,
       <<"Hilton Grand Vacations Club at Waikoloa Beach", "Hawaii">>,
       <<"Hilton Grand Vacations Club at MarBrisa", "California">>,
       <<"Hilton Grand Vacations Club at Anderson Ocean", "South Carolina">>,
       <<"Hilton Grand Vacations Club at Ocean 22", "South Carolina">>,
       <<"Hilton Club New York", "New York">>,
       <<"West 57th Street by Hilton Club", "New York">>,
       <<"Hilton Grand Vacations Club at Sunrise Lodge", "Utah">>,
       <<"Hilton Grand Vacations Club at Valdoro Mountain Lodge", "Colorado">>,
       <<"Hilton Grand Vacations Club at Craigendarroch", "Scotland">> >>

\* listing['location'] of a listing: TUG and RedWeek infer it from the name,
\* SMTSN takes `location or self._infer_location(resort_name or '')`
ListingLocation(e, resort_name, passed) ==
    IF e = "smtsn" /\ passed # "" THEN passed
    ELSE infer_location(resort_name)

MaxNameWords == 2

\* what the resort names shown by TUG and RedWeek are made of
NameWords == {"Elara", "Tuscany", "Orlando", "Maui", "Italy", "Valdoro", "MarBrisa",
              "VEGAS"}

LocationIdle ==
    /\ lpc = "input"
    /\ loc_ext = ""
    /\ loc_resort = ""
    /\ loc_passed = ""
    /\ loc_words = 0
    /\ location = ""

\* the resort name TUG or RedWeek shows on its page, a word longer
PageResort(e, w) ==
    /\ lpc = "input"
    /\ loc_ext \in {"", e}
    /\ loc_words < MaxNameWords
    /\ loc_ext' = e
    /\ loc_resort' = IF loc_resort = "" THEN w ELSE loc_resort \o " " \o w
    /\ loc_words' = loc_words + 1
    /\ UNCHANGED <<lpc, loc_passed, location>>

\* SMTSN: `for resort_name, location in self.HGVC_RESORTS`
ListedResort(k) ==
    /\ lpc = "input"
    /\ loc_ext = ""
    /\ loc_ext' = "smtsn"
    /\ loc_resort' = HGVC_RESORTS[k][1]
    /\ loc_passed' = HGVC_RESORTS[k][2]
    /\ UNCHANGED <<lpc, loc_words, location>>

\* the card is parsed and the listing emitted with its location
EmitLocation ==
    /\ lpc = "input"
    /\ loc_ext # ""
    /\ location' = ListingLocation(loc_ext, loc_resort, loc_passed)
    /\ lpc' = "done"
    /\ UNCHANGED <<loc_ext, loc_resort, loc_passed, loc_words>>

LocationNext ==
    \/ \E e \in {"tug", "redweek"}, w \in NameWords : PageResort(e, w) /\ LocationFrame
    \/ \E k \in DOMAIN HGVC_RESORTS : ListedResort(k) /\ LocationFrame
    \/ EmitLocation /\ LocationFrame

-----------------------------------------------------------------------------
(* Specifications *)

MaxPages == 2
MaxCards == 1

\* _fetch_with_retry, one call. The call runs to its end: the interpreter
\* keeps executing it, and every request ends in a response or an exception
\* (timeout=30)
InitFetch ==
    /\ FetchInit /\ ScrapeIdle /\ RunIdle /\ NormIdle /\ ImportIdle /\ MatchIdle
    /\ CalcIdle /\ FilterIdle /\ UsageIdle /\ LocationIdle

SpecFetch == InitFetch /\ [][FetchNext]_vars /\ WF_vars(FetchNext)

\* scrape_listings over several pages, drawing from a few cards
InitScrape ==
    /\ FetchInit /\ RunIdle /\ NormIdle /\ ImportIdle /\ MatchIdle
    /\ CalcIdle /\ FilterIdle /\ UsageIdle /\ LocationIdle
    /\ ScrapeStart([pages |-> MaxPages, cards |-> MaxCards, pool |-> "few"])

SpecScrape == InitScrape /\ [][ScrapeNext]_vars

\* scrape_listings over one page of one card, drawing from every card
InitCard ==
    /\ FetchInit /\ RunIdle /\ NormIdle /\ ImportIdle /\ MatchIdle
    /\ CalcIdle /\ FilterIdle /\ UsageIdle /\ LocationIdle
    /\ ScrapeStart([pages |-> 1, cards |-> 1, pool |-> "all"])

SpecCard == InitCard /\ [][ScrapeNext]_vars

\* run_scraping against the listing store, run after run
Init ==
    /\ FetchInit /\ ScrapeIdle /\ RunIdle /\ NormIdle /\ ImportIdle /\ MatchIdle
    /\ CalcIdle /\ FilterIdle /\ UsageIdle /\ LocationIdle

Spec == Init /\ [][RunNext]_vars

\* import_mf_csv, call after call, the table read by another session between
\* any two steps
InitImport ==
    /\ FetchInit /\ ScrapeIdle /\ RunIdle /\ NormIdle /\ ImportIdle /\ MatchIdle
    /\ CalcIdle /\ FilterIdle /\ UsageIdle /\ LocationIdle

SpecImport == InitImport /\ [][ImportNext]_vars

\* normalize_resort_name of a name put together from fragments
InitNorm ==
    /\ FetchInit /\ ScrapeIdle /\ RunIdle /\ NormIdle /\ ImportIdle /\ MatchIdle
    /\ CalcIdle /\ FilterIdle /\ UsageIdle /\ LocationIdle

SpecNorm == InitNorm /\ [][NormNext]_vars

\* match_resort_to_reference on the listing names, reference lists and thresholds
InitMatch ==
    /\ FetchInit /\ ScrapeIdle /\ RunIdle /\ NormIdle /\ ImportIdle /\ MatchIdle
    /\ CalcIdle /\ FilterIdle /\ UsageIdle /\ LocationIdle

SpecMatch == InitMatch /\ [][MatchNext]_vars

\* the calculators on direct calls and on the tables of the store
InitCalc ==
    /\ FetchInit /\ ScrapeIdle /\ RunIdle /\ NormIdle /\ ImportIdle /\ MatchIdle
    /\ CalcIdle /\ FilterIdle /\ UsageIdle /\ LocationIdle

SpecCalc == InitCalc /\ [][CalcNext]_vars

\* apply_filters on the enriched tables and the filters dicts
InitFilter ==
    /\ FetchInit /\ ScrapeIdle /\ RunIdle /\ NormIdle /\ ImportIdle /\ MatchIdle
    /\ CalcIdle /\ FilterIdle /\ UsageIdle /\ LocationIdle

SpecFilter == InitFilter /\ [][FilterNext]_vars

\* usage-cycle inference on one text
InitUsage ==
    /\ FetchInit /\ ScrapeIdle /\ RunIdle /\ NormIdle /\ ImportIdle /\ MatchIdle
    /\ CalcIdle /\ FilterIdle /\ UsageIdle /\ LocationIdle

SpecUsage == InitUsage /\ [][UsageNext]_vars

\* the location of one emitted listing
InitLocation ==
    /\ FetchInit /\ ScrapeIdle /\ RunIdle /\ NormIdle /\ ImportIdle /\ MatchIdle
    /\ CalcIdle /\ FilterIdle /\ UsageIdle /\ LocationIdle

SpecLocation == InitLocation /\ [][LocationNext]_vars

-----------------------------------------------------------------------------
(* Claims *)

\* the first request that was answered with a body
FirstOk == CHOOSE i \in DOMAIN outcomes :
              /\ outcomes[i].kind = "ok"
              /\ \A j \in 1..(i - 1) : outcomes[j].kind # "ok"

\* what holds of a call of _fetch_with_retry at every step
C1_FetchState ==
    /\ Len(outcomes) <= MAX_RETRIES
    /\ attempt <= MAX_RETRIES
    /\ fpc # "raised"
    /\ \A i \in DOMAIN outcomes :
          outcomes[i].kind = "ok" => i = Len(outcomes) /\ fpc = "returned"
    /\ fpc # "returned" => fres = NotYet
    /\ fpc = "returned" =>
          IF \E i \in DOMAIN outcomes : outcomes[i].kind = "ok"
            THEN fres = Body(outcomes[FirstOk].body)
            ELSE fres = None

\* C1: _fetch_with_retry terminates, issues at most MAX_RETRIES requests,
\* returns the body of the first successful response or None, never lets an
\* exception escape and issues no request after a success.
C1_FetchTerminatesBounded == []C1_FetchState /\ <>(fpc = "returned")

\* three failed requests, one of them an unexpected exception, end in None
C1_Witness ==
    /\ fpc = "returned"
    /\ fres = None
    /\ Len(outcomes) = MAX_RETRIES
    /\ \E i \in DOMAIN outcomes : outcomes[i].kind = "other_exception"

\* the listings the card loop emits for the cards of one fetched page
RECURSIVE EmittedFrom(_, _, _)
EmittedFrom(page, cards, upto) ==
    IF upto = 0 THEN <<>>
    ELSE EmittedFrom(page, cards, upto - 1)
         \o Emit(ext, cards[upto].card, filters, SourceId(page, upto))

\* ... and for the pages 1..upto, the pages that could not be fetched skipped
RECURSIVE EmittedUpTo(_)
EmittedUpTo(upto) ==
    IF upto = 0 THEN <<>>
    ELSE EmittedUpTo(upto - 1)
         \o (IF Html(pagesIn[upto].html)
               THEN EmittedFrom(upto, pagesIn[upto].cards, Len(pagesIn[upto].cards))
               ELSE <<>>)

\* C2: in the RedWeek and SMTSN extractors a resort page that cannot be
\* fetched is skipped and the run goes on: whatever pages fail, every resort is
\* visited and the list returned holds the listings of every page that was
\* fetched, in order.
C2_FailedPageSkipped ==
    ext \in {"redweek", "smtsn"} =>
        /\ all_listings = EmittedUpTo(Len(pagesIn))
        /\ spc = "done" => /\ Len(pagesIn) = resorts
                           /\ sres = EmittedUpTo(resorts)

\* the first page failed, the second was fetched and its listing is returned
C2_Witness ==
    /\ ext = "smtsn"
    /\ spc = "done"
    /\ Len(pagesIn) = 2
    /\ pagesIn[1].html = None
    /\ Html(pagesIn[2].html)
    /\ Len(sres) = 1
    /\ sres[1].source_id = SourceId(2, 1)

\* the run record of the call in progress
RunLog == logs_db[Len(logs_db)]

\* the run records at every step of run_scraping
C3_LogState ==
    /\ \A i \in DOMAIN logs_db :
          /\ logs_db[i].status \in {"running", "completed", "failed"}
          /\ i < Len(logs_db) => logs_db[i].status # "running"
    /\ rpc \in {"try", "upsert"} => RunLog.status = "running"
    /\ rpc \in {"finally", "idle"} /\ logs_db # <<>> => RunLog.status # "running"
    /\ rpc = "finally" => (RunLog.status = "failed" <=> exc # "NULL")

\* what a step does to the run records
C3_LogStep ==
    /\ Len(logs_db') >= Len(logs_db)
    /\ \A i \in DOMAIN logs_db :
          logs_db[i].status # "running" => logs_db'[i] = logs_db[i]
    /\ Len(logs_db') > Len(logs_db) => logs_db'[Len(logs_db')].status = "running"

\* C3: every run record starts 'running'; wherever the extractor, the upsert
\* loop or the commit fails, the record is 'completed' or 'failed' before
\* run_scraping returns, none is left 'running' after the return, and a
\* finalized record is never modified again.
C3_LogFinalizedOnce == []C3_LogState /\ [][C3_LogStep]_vars

\* a run failed inside the upsert loop after a completed one, and was finalized
C3_Witness ==
    /\ rpc = "finally"
    /\ Len(logs_db) = 2
    /\ logs_db[1].status = "completed"
    /\ idx = 2
    /\ idx <= Len(listings)
    /\ exc = StoreError
    /\ RunLog.status = "failed"

\* C4: when a run fails after some of its listings were upserted, the run
\* record is 'failed' with the exception's message and the listings upserted
\* before the failure are stored (a later bulk read returns them).
C4_UpsertedBeforeFailureStored ==
    rpc = "finally" /\ exc # "NULL" /\ idx > 1 =>
        /\ RunLog.status = "failed"
        /\ RunLog.error_message = exc
        /\ \A k \in 1..(idx - 1) :
              \E row \in get_all_listings(listings_db, FALSE) :
                  row.source_id = listings[k].source_id

\* the rows of a table that have both resort_name and annual_mf, as stored
RECURSIVE ValidRows(_)
ValidRows(table) ==
    IF table = <<>> THEN <<>>
    ELSE IF Head(table).resort_name # "" /\ Head(table).annual_mf \notin {0, NoKey}
      THEN <<MfData(Head(table))>> \o ValidRows(Tail(table))
      ELSE ValidRows(Tail(table))

\* C5: at every moment the committed reference table (what another session
\* reads) is the table as it was before the import or the valid rows of the
\* new import; when the import fails at any row or at the commit the table is
\* the table as it was before, never empty-because-cleared or partly filled.
C5_ImportAtomic ==
    /\ mf_db = mf_before \/ (ipc = "finally" /\ iresult.success /\ mf_db = ValidRows(df))
    /\ ipc = "finally" /\ ~iresult.success => mf_db = mf_before
    /\ ipc = "finally" /\ iresult.success => mf_db = ValidRows(df)

\* an import over a table that is not empty failed at its second row, after a
\* valid first row
C5_Witness ==
    /\ ipc = "finally"
    /\ ~iresult.success
    /\ mf_before # <<>>
    /\ irow = 2
    /\ ~Skipped(df[1])
    /\ mf_db = mf_before

\* C6: no two stored listings share a source_id, also with the same source_id
\* twice in one batch; upserting a stored source_id updates the submitted
\* fields of the existing row and leaves the row count unchanged; is_new is
\* true exactly when the source_id was not stored before.
C6_UpsertUnique ==
    /\ ~ViolatesUnique(listings_db)
    /\ ~ViolatesUnique(Flush(sess_rows, pending))
    /\ last_upsert # NoUpsert =>
          /\ last_upsert.is_new <=> ~last_upsert.existed
          /\ last_upsert.existed =>
                /\ last_upsert.count_after = last_upsert.count_before
                /\ last_upsert.price_sent # NoKey
                      => last_upsert.price_stored = last_upsert.price_sent
          /\ ~last_upsert.existed =>
                last_upsert.count_after = last_upsert.count_before + 1

\* the same source_id twice in one batch, the second with a price the first
\* did not have
C6_Witness ==
    /\ rpc = "upsert"
    /\ idx = 3
    /\ listings[1].source_id = listings[2].source_id
    /\ listings[1].asking_price = NoKey
    /\ listings[2].asking_price = 1000
    /\ last_upsert.existed
    /\ ~last_upsert.is_new
    /\ last_upsert.price_stored = 1000

\* C7: after a completed run of a source, every stored listing of that source
\* that the run did not return has is_active = false and is not in the
\* active-only bulk read, and every listing the run returned has
\* is_active = true.
C7_SoftDelete ==
    rpc = "finally" /\ exc = "NULL" =>
        \A i \in DOMAIN listings_db :
            LET row == listings_db[i] IN
            row.source = run_source =>
                IF \E k \in DOMAIN listings : listings[k].source_id = row.source_id
                  THEN row.is_active
                  ELSE /\ ~row.is_active
                       /\ row \notin get_all_listings(listings_db, TRUE)

\* the cards served on fetched pages: <<page, position>>
ServedCards ==
    {pc \in (DOMAIN pagesIn) \X (1..envelope.cards) :
        /\ Html(pagesIn[pc[1]].html)
        /\ pc[2] \in DOMAIN pagesIn[pc[1]].cards}

CardAt(pc) == pagesIn[pc[1]].cards[pc[2]].card

\* a candidate record whose identity fields can be extracted
Identified(c) == c.hgvc /\ c.id /\ c.resort

\* the price the card shows, NoneNum when it shows none
ShownPrice(c) == IF ext = "tug" /\ c.free /\ ExtractNumber(c.price) = NoneNum
                   THEN 0 ELSE ExtractNumber(c.price)

\* the price filters passed exclude a record whose price is out of range
OutOfRange(c) ==
    /\ ext # "tug"
    /\ ShownPrice(c) # NoneNum
    /\ \/ filters.price_max # 0 /\ ShownPrice(c) > filters.price_max
       \/ filters.price_min # 0 /\ ShownPrice(c) < filters.price_min

\* C8: a candidate record whose source_id and resort name can be extracted is
\* in the result of scrape_listings whether or not its price, fee or points are
\* present, the missing fields null, also when price filters are passed (a
\* record without a price is not removed by them). Stated for cards whose
\* optional fields are absent or well-formed.
C8_PartialRecordKept ==
    spc = "done" =>
        \A pc \in ServedCards :
            LET c == CardAt(pc) IN
            Identified(c) /\ CardPoints(c.pts) # RaiseNum /\ ~OutOfRange(c) =>
                \E i \in DOMAIN sres :
                    /\ sres[i].source_id = SourceId(pc[1], pc[2])
                    /\ ShownPrice(c) = NoneNum
                          => sres[i].asking_price \in {NoneNum, NoKey}
                    /\ c.fee = "" => sres[i].annual_mf \in {NoneNum, NoKey}

\* C9: the points of an emitted record are the integer found on the card or on
\* the detail page, or null; null when neither yields points; and the SMTSN
\* extractor fetches the detail page only when the card yields no points.
C9_PointsNeverDefaulted ==
    spc = "done" =>
        \A pc \in ServedCards :
            LET c == CardAt(pc)
                onCard == IF ext = "redweek" THEN NoneNum ELSE CardPoints(c.pts)
                onDetail == IF ext = "tug" THEN NoneNum ELSE DetailPoints(c.detail)
            IN  /\ \A i \in DOMAIN sres :
                     sres[i].source_id = SourceId(pc[1], pc[2]) =>
                        /\ sres[i].points \in {onCard, onDetail, NoneNum, NoKey}
                        /\ (onCard = NoneNum /\ onDetail = NoneNum
                               => sres[i].points \in {NoneNum, NoKey})
                /\ (ext = "smtsn" /\ pagesIn[pc[1]].cards[pc[2]].detail_fetched
                       => onCard = NoneNum)

\* C10: normalize_resort_name is idempotent: normalising a normalised name
\* gives the same name, also for names with repeated or nested prefixes,
\* filler words or dashes.
C10_NormalizeIdempotent ==
    npc = "done" => normalize_resort_name(normalized) = normalized

\* C11: for every raw resort name, the key each extractor writes on a listing
\* equals the key the reference import writes for the same name, so the two
\* rows join in enrich_listings_dataframe.
\* Violated: "The Elara" is stored as "the elara" by every extractor and as
\* "elara" by the import.
C11_ListingKeyIsReferenceKey ==
    npc = "done" => \A e \in Extractors : listing_key[e] = normalized

\* the normalised arguments of the finished call
MatchedName == normalize_resort_name(listing_resort)
MatchedRefs == NormalizedRefs(reference_resorts)

\* the alias tier as the specification words it: the name contains an alias of
\* some canonical key and some reference contains that key or is contained in it
SomeAliasTier ==
    \E k \in DOMAIN RESORT_ALIASES :
        /\ AliasHit(k, lower(MatchedName))
        /\ AliasTier(RESORT_ALIASES[k].canonical, MatchedRefs) # {}

\* C12: match_resort_to_reference is a three-tier cascade: none when the
\* normalised name or the reference list is empty; else (ref, 100) when the name
\* contains an alias of a canonical key and a reference contains that key or is
\* contained in it; else (ref, 95) when the name and a reference are in a
\* substring relation; else the best fuzzy candidate when its score is at least
\* the threshold; else none.  The returned name is one of the references.
\* Violated: 'McAlpin Ocean Plaza' against ['McAlpin'] contains the alias
\* 'mcalpin' of the key 'mcalpin', which the reference contains, and is
\* returned at 95: get_canonical_name stops at the earlier entry
\* 'anderson ocean', whose alias 'ocean plaza' is in the name too.
C12_ThreeTierCascade ==
    mpc = "done" =>
        /\ match_result # NoMatch =>
               \E i \in DOMAIN reference_resorts :
                   match_result.ref = reference_resorts[i]
        /\ IF MatchedName = "" \/ reference_resorts = <<>>
             THEN match_result = NoMatch
           ELSE IF SomeAliasTier
             THEN match_result.score = <<100, 1>>
           ELSE IF SubstringTier(MatchedName, MatchedRefs) # {}
             THEN match_result.score = <<95, 1>>
           ELSE match_result =
                    FuzzyTier(reference_resorts, MatchedRefs,
                              FuzzyScores(MatchedName, MatchedRefs), threshold)

\* row i of the enriched table as the metrics engine read it
EnrichedRow(i) == RowDict(listings_df, i)

\* C13: calculate_mf_per_point(fee, points) is None exactly when fee is None,
\* points is None or points is 0; for every other input, a fee of 0 with
\* positive points included, it is fee / points, and calculate_deal_metrics
\* reports that quotient rounded to 4 decimals.
\* Violated: calculate_mf_per_point(0, 5000) is None ("not annual_mf").
C13_FeePerPointDefined ==
    /\ cpc = "called" =>
           IF call.annual_mf = NoneNum \/ call.points = NoneNum \/ call.points = 0
             THEN call.mf_per_point = NoneFrac
             ELSE call.mf_per_point = <<call.annual_mf, call.points>>
    /\ cpc = "done" =>
           \A i \in DOMAIN metrics :
               EnrichedRow(i).annual_mf > 0 /\ EnrichedRow(i).points > 0 =>
                   metrics[i].mf_per_point =
                       Round4(<<EnrichedRow(i).annual_mf, metrics[i].annual_points>>)

\* null in the enriched table: None or float('nan')
IsNull(x) == x = NoneNum \/ x = NaN

\* the reference fee joined to stored listing i, None without one
ReferenceFee(i) == MfLookup(mf_ref_df, listings_df[i].resort_name_normalized)

\* the fee the specification uses for stored listing i: its own when it reports
\* one, else the reference fee
SpecFee(i) ==
    IF listings_df[i].annual_mf # NoneNum THEN listings_df[i].annual_mf
    ELSE ReferenceFee(i)

\* the metrics of stored listing i computed from the fee f
MetricsFrom(i, f) ==
    LET row == listings_df[i]
        annual_points == calculate_annual_points(row.points, row.usage)
    IN  /\ annual_points > 0 /\ f > 0 =>
               metrics[i].mf_per_point = Round4(<<f, annual_points>>)
        /\ row.asking_price # NoneNum =>
               metrics[i].total_10yr =
                   calculate_10yr_cost(row.asking_price, f, row.usage)

\* C14: the metrics of a listing use its own fee whenever it reports one and the
\* joined reference fee only when it reports none; with no own fee and a
\* reference fee for its key, fee-per-point and 10-year cost are computed from
\* the reference fee; with neither, both are null.
\* Violated: a listing without a fee, in a table where another listing has
\* one, reads its fee as float('nan'), which "or" keeps: the reference fee is
\* never used; and an own fee of 0 is replaced by the reference fee.
C14_OwnFeeElseReferenceFee ==
    cpc = "done" =>
        \A i \in DOMAIN metrics :
            IF SpecFee(i) = NoneNum
              THEN IsNull(metrics[i].mf_per_point) /\ IsNull(metrics[i].total_10yr)
              ELSE MetricsFrom(i, SpecFee(i))

\* C15: the 10-year cost calculate_deal_metrics reports is null whenever the
\* asking price is missing or no fee is available; a missing price is never
\* taken as a price of 0.
\* Violated: asking_price None becomes 0 ("or 0"), and the total is
\* 0 + 1100 + 10 * fee.
C15_NoTotalWithoutPrice ==
    cpc = "done" =>
        \A i \in DOMAIN metrics :
            listings_df[i].asking_price = NoneNum \/ SpecFee(i) = NoneNum =>
                IsNull(metrics[i].total_10yr)

\* a usage value that begins with 'EOY'
BeginsWithEOY(usage) == Len(usage) >= 3 /\ SubSeq(usage, 1, 3) = "EOY"

\* C16: with price and fee both present the 10-year cost is
\* price + 1100 + 10 * fee for Annual usage and
\* price + 1100 + 5 * fee + 10 * 209 for every usage beginning with 'EOY';
\* Annual, 10000, 1000 gives 21100 and EOY, 5000, 800 gives 12190.
C16_TenYearCost ==
    cpc = "called" /\ call.asking_price # NoneNum /\ call.annual_mf # NoneNum =>
        /\ call.usage = "Annual" =>
               call.total_10yr = call.asking_price + 1100 + 10 * call.annual_mf
        /\ BeginsWithEOY(call.usage) =>
               call.total_10yr =
                   call.asking_price + 1100 + 5 * call.annual_mf + 10 * 209
        /\ call.usage = "Annual" /\ call.asking_price = 10000
             /\ call.annual_mf = 1000 => call.total_10yr = 21100
        /\ call.usage = "EOY" /\ call.asking_price = 5000
             /\ call.annual_mf = 800 => call.total_10yr = 12190

C16_Witness ==
    /\ cpc = "called"
    /\ call.usage = "EOY-Odd" /\ call.asking_price = 5000 /\ call.annual_mf = 800
    /\ call.total_10yr = 12190

\* the ladder of the specification on a quotient
SpecGrade(x) ==
    IF x = NoneFrac THEN "unknown"
    ELSE IF 10 * x[1] <= x[2] THEN "excellent"
    ELSE IF 100 * x[1] <= 15 * x[2] THEN "good"
    ELSE IF 10 * x[1] <= 2 * x[2] THEN "fair"
    ELSE "poor"

\* C17: get_deal_grade is a total, contiguous ladder with inclusive upper
\* bounds (<= 0.10 excellent, <= 0.15 good, <= 0.20 fair, above poor, null
\* unknown), and in the output of calculate_deal_metrics the grade is 'unknown'
\* exactly when the reported fee-per-point is null: a listing with a missing
\* fee or missing points is never graded poor.
\* Violated: a missing fee read as float('nan') gives the quotient nan, which
\* fails every comparison of the ladder and is graded 'poor'.
C17_GradeLadder ==
    /\ cpc = "called" => call.deal_grade = SpecGrade(call.mf_per_point)
    /\ cpc = "done" =>
           \A i \in DOMAIN metrics :
               /\ metrics[i].deal_grade = "unknown" <=> IsNull(metrics[i].mf_per_point)
               /\ listings_df[i].points = NoneNum \/ SpecFee(i) = NoneNum =>
                      metrics[i].deal_grade # "poor"

\* C18: calculate_annual_points returns 0 when points is None or 0 for any
\* usage, points // 2 for every usage beginning with 'EOY', and points for
\* every other usage.
C18_AnnualPoints ==
    cpc = "called" =>
        call.annual_points =
            IF call.points = NoneNum \/ call.points = 0 THEN 0
            ELSE IF BeginsWithEOY(call.usage)
              THEN CHOOSE h \in 0..call.points :
                       2 * h <= call.points /\ call.points < 2 * (h + 1)
            ELSE call.points

C18_Witness ==
    /\ cpc = "called"
    /\ call.points = 7001 /\ call.usage = "EOY-Even"
    /\ call.annual_points = 3500

\* the rows of the table returned
FilteredRows == {filtered[i] : i \in DOMAIN filtered}

\* the selections of apply_filters that are not on a range or threshold
CategoriesKept(row) ==
    /\ SeasonKept(filters_dict, row)
    /\ UsageKept(filters_dict, row)
    /\ LocationKept(filters_dict, row)
    /\ SourceKept(filters_dict, row)

\* C19: for every points range, price range and maximum fee-per-point,
\* apply_filters keeps every row whose value in the filtered column is null,
\* provided the row passes the other selections: a null never excludes a row
\* from a range or threshold selection.
C19_NullPassesRangeFilters ==
    apc = "done" =>
        \A i \in DOMAIN enriched_df :
            LET row == enriched_df[i] IN
            /\ IsNa(row.points) /\ CategoriesKept(row)
                 /\ PriceKept(filters_dict, row) /\ MfKept(filters_dict, row)
                 => row \in FilteredRows
            /\ IsNa(row.asking_price) /\ CategoriesKept(row)
                 /\ PointsKept(filters_dict, row) /\ MfKept(filters_dict, row)
                 => row \in FilteredRows
            /\ IsNa(row.mf_per_point) /\ CategoriesKept(row)
                 /\ PointsKept(filters_dict, row) /\ PriceKept(filters_dict, row)
                 => row \in FilteredRows

\* a row without points is returned under a range that excludes the row with
\* points next to it
C19_Witness ==
    /\ apc = "done"
    /\ filters_dict.points_range = Given(<<10000, 20000>>)
    /\ Len(enriched_df) = 2 /\ Len(filtered) = 1
    /\ IsNa(filtered[1].points)
    /\ \E i \in DOMAIN enriched_df : enriched_df[i].points = 8000

\* the conjunction of the selections whose key the filters dict holds
PresentKept(row) ==
    /\ filters_dict.season.present => SeasonKept(filters_dict, row)
    /\ filters_dict.usage.present => UsageKept(filters_dict, row)
    /\ filters_dict.locations.present => LocationKept(filters_dict, row)
    /\ filters_dict.points_range.present => PointsKept(filters_dict, row)
    /\ filters_dict.price_range.present => PriceKept(filters_dict, row)
    /\ filters_dict.max_mf_per_point.present => MfKept(filters_dict, row)
    /\ filters_dict.sources.present => SourceKept(filters_dict, row)

\* C20: apply_filters returns exactly the input rows that satisfy every
\* selection present in the filters argument, in their order and unaltered; a
\* selection that is omitted excludes no row, and an empty filters argument
\* returns every row.
\* Violated: without 'points_range', 'price_range' or 'max_mf_per_point' the
\* defaults (5000, 30000), (0, 20000) and 0.30 are applied: apply_filters(df, {})
\* drops the row with 3000 points.
C20_OmittedFilterExcludesNothing ==
    apc = "done" => filtered = SelectSeq(enriched_df, PresentKept)

\* a row that has both resort_name and annual_mf: neither cell is left out,
\* empty or float('nan'); a fee of 0 counts as no fee, as the import's test does
HasBoth(row) ==
    /\ row.resort_name \notin {"", NaNName}
    /\ row.annual_mf \notin {0, NoKey, NaN}

\* the records of the rows of a table that have both
RECURSIVE RecordsOfRowsWithBoth(_)
RecordsOfRowsWithBoth(table) ==
    IF table = <<>> THEN <<>>
    ELSE IF HasBoth(Head(table))
      THEN <<MfData(Head(table))>> \o RecordsOfRowsWithBoth(Tail(table))
      ELSE RecordsOfRowsWithBoth(Tail(table))

\* C21: a row of import_mf_csv that is missing resort_name or annual_mf is
\* skipped and does not make the import fail: unless the store itself fails at
\* the commit, the import of every table succeeds and leaves exactly one record
\* for each row that has both, with year 2025 when the table has no year column.
\* Violated: an empty cell is float('nan'), which `not` does not see; the row is
\* not skipped and the import fails on it.
C21_MissingRowsSkipped ==
    ipc = "finally" /\ iresult.error # StoreError =>
        /\ iresult.success
        /\ iresult.count = Len(RecordsOfRowsWithBoth(df))
        /\ mf_db = RecordsOfRowsWithBoth(df)
        /\ \A i \in DOMAIN mf_db :
               \E j \in DOMAIN df :
                   /\ mf_db[i].resort_name = df[j].resort_name
                   /\ df[j].year = NoKey => mf_db[i].year = 2025

\* the retry sleeps of the attempt that issued request i (attempt i - 1)
SleepsOfRequest(i) == {j \in DOMAIN sleeps : sleeps[j].attempt = i - 1}

\* request i has been handled: its attempt is over
Handled(i) == i <= attempt \/ fpc = "returned"

\* C22: on a 429 response _fetch_with_retry sleeps for the Retry-After header
\* value (60 seconds without the header) and goes on to the next attempt; no
\* exponential backoff sleep (2^attempt + jitter or 30 * 2^attempt) is added
\* for that attempt.
\* Violated: a Retry-After that is an HTTP-date makes int() raise; the attempt
\* ends in the exponential backoff and the header is not honoured.
C22_RetryAfterHonoured ==
    \A i \in DOMAIN outcomes :
        outcomes[i].kind = "429" /\ Handled(i) =>
            /\ Cardinality(SleepsOfRequest(i)) = 1
            /\ \A j \in SleepsOfRequest(i) :
                   /\ sleeps[j].kind = "429"
                   /\ outcomes[i].retry_after = "absent" => sleeps[j].seconds = 60
                   /\ outcomes[i].retry_after = "1" => sleeps[j].seconds = 1
                   /\ outcomes[i].retry_after = "120" => sleeps[j].seconds = 120
            /\ fpc = "returned" /\ i = Len(outcomes) => i = MAX_RETRIES

\* C23: within _fetch_with_retry every request is preceded by exactly one
\* rate-limit delay from [REQUEST_DELAY_MIN, REQUEST_DELAY_MAX]: the delays
\* slept are as many as the requests issued, retries included, plus the one of
\* the request about to be sent.
C23_DelayBeforeEveryRequest ==
    /\ \A i \in DOMAIN delays :
           REQUEST_DELAY_MIN <= delays[i] /\ delays[i] <= REQUEST_DELAY_MAX
    /\ Len(delays) = Len(outcomes) + (IF fpc = "get" THEN 1 ELSE 0)
    /\ fpc = "get" => Len(delays) = attempt + 1

\* a call that issued a request and two retries, each after its own delay
C23_Witness ==
    /\ fpc = "returned"
    /\ Len(outcomes) = MAX_RETRIES
    /\ Len(delays) = MAX_RETRIES
    /\ outcomes[1].kind = "timeout"
    /\ outcomes[2].kind = "403"

\* failures the spec calls transient
Transient == {"timeout", "connection_error", "http_error"}

\* C24: the backoff after a failed attempt k (from 0) depends on the failure
\* class only: a 403 sleeps 30 * 2^k seconds; a timeout, a connection error or
\* another HTTP error status sleeps 2^k + j seconds with 0 <= j <= 1, and only
\* when another attempt follows.
C24_BackoffByFailureClass ==
    \A i \in DOMAIN outcomes :
        Handled(i) =>
            LET k == i - 1 IN
            /\ outcomes[i].kind = "403" =>
                   /\ Cardinality(SleepsOfRequest(i)) = 1
                   /\ \A j \in SleepsOfRequest(i) :
                          sleeps[j].kind = "403" /\ sleeps[j].seconds = 30 * 2^k
            /\ outcomes[i].kind \in Transient /\ k < MAX_RETRIES - 1 =>
                   /\ Cardinality(SleepsOfRequest(i)) = 1
                   /\ \A j \in SleepsOfRequest(i) :
                          /\ sleeps[j].kind = "backoff"
                          /\ 2^k <= sleeps[j].seconds
                          /\ sleeps[j].seconds <= 2^k + 1
            /\ outcomes[i].kind \in Transient /\ k = MAX_RETRIES - 1 =>
                   SleepsOfRequest(i) = {}

\* a 403 on the last attempt slept 120 seconds after a timeout on the first
\* slept its 2^0 + j, and a transient failure on the last attempt slept nothing
C24_Witness ==
    /\ fpc = "returned"
    /\ Len(outcomes) = MAX_RETRIES
    /\ outcomes[1].kind = "timeout"
    /\ outcomes[2].kind = "403"
    /\ outcomes[3].kind = "connection_error"
    /\ Len(sleeps) = 2
    /\ sleeps[2].seconds = 60

\* the classification the specification gives a text, first match first
SpecUsageOf(text) ==
    LET t == lower(text) IN
    IF Contains("even year", t) THEN "EOY-Even"
    ELSE IF Contains("odd year", t) THEN "EOY-Odd"
    ELSE IF \/ Contains("every other year", t)
            \/ Contains("biennial", t)
            \/ SearchToken(t, "eoy")
      THEN "EOY"
    ELSE "Annual"

\* C25: usage-cycle inference is the same first-match classification in the
\* three extractors and in extract_usage: 'even year' gives EOY-Even, else
\* 'odd year' EOY-Odd, else 'every other year', 'biennial' or the token EOY
\* gives EOY, else Annual; on every text the four return the same value.
\* Violated: on the text "EOY" TUG and extract_usage return EOY, SMTSN and
\* RedWeek Annual; RedWeek reads "Even" alone as EOY-Even.
C25_UsageInferenceAgrees ==
    upc = "done" =>
        \A reader \in UsageReaders : usage_by[reader] = SpecUsageOf(usage_text)

\* the labels of the location table
LocationLabels == {LOCATION_KEYWORDS[k].location : k \in DOMAIN LOCATION_KEYWORDS}

\* C26: the location of every emitted listing is never null and is the first
\* label of the location table, in table order, with a keyword in the
\* lowercased resort name, or 'Other' when no keyword hits; so it is a label of
\* the table or 'Other'.
\* Violated: SMTSN emits the location listed beside the resort in HGVC_RESORTS,
\* e.g. 'California' for MarBrisa, where the table gives 'San Diego'.
C26_LocationFromTable ==
    lpc = "done" =>
        LET name_lower == lower(loc_resort) IN
        /\ location # ""
        /\ location \in LocationLabels \cup {"Other"}
        /\ IF \E k \in DOMAIN LOCATION_KEYWORDS : KeywordHit(k, name_lower)
             THEN \E k \in DOMAIN LOCATION_KEYWORDS :
                      /\ KeywordHit(k, name_lower)
                      /\ \A h \in 1..(k - 1) : ~KeywordHit(h, name_lower)
                      /\ location = LOCATION_KEYWORDS[k].location
             ELSE location = "Other"

\* the counts a finalized run record may hold
C27_Counts ==
    \A i \in DOMAIN logs_db :
        /\ logs_db[i].status = "completed" =>
               logs_db[i].listings_found =
                   logs_db[i].listings_new + logs_db[i].listings_updated
        /\ logs_db[i].status = "failed" =>
               /\ logs_db[i].listings_found = 0
               /\ logs_db[i].listings_new = 0
               /\ logs_db[i].listings_updated = 0

\* the step that finalizes the run: what it records and what it stores
C27_Finalize ==
    rpc # "finally" /\ rpc' = "finally" =>
        IF RunLog'.status = "completed"
          THEN /\ RunLog'.listings_found = Len(listings)
               /\ Len(listings_db') = Len(listings_db) + RunLog'.listings_new
          ELSE /\ RunLog'.status = "failed"
               /\ listings_db' = listings_db

\* C27: a run finalized as 'completed' records found = new + updated = the
\* number of listings the extractor returned, and the stored listings grew by
\* exactly `new` during the run; a run finalized as 'failed' records 0, 0, 0.
C27_RunCounts == []C27_Counts /\ [][C27_Finalize]_vars

\* a failed run, then a completed run that found the same listing twice: one
\* new, one updated
C27_Witness ==
    /\ rpc = "finally"
    /\ Len(logs_db) = 2
    /\ logs_db[1].status = "failed"
    /\ logs_db[2].status = "completed"
    /\ logs_db[2].listings_new = 1
    /\ logs_db[2].listings_updated = 1
    /\ Len(listings_db) = 1

\* the listings as the session of the run sees them, pending ones included
SessionListings == Flush(sess_rows, pending)

\* one upsert_listing call of the run on a source_id that is already stored
C28_UpdateStep ==
    rpc = "upsert" /\ idx' = idx + 1 =>
        LET data == listings[idx]
            k == get_listing_by_source_id(SessionListings, data.source_id)
        IN  k # 0 =>
                /\ Len(SessionListings') = Len(SessionListings)
                /\ \A i \in DOMAIN SessionListings :
                       i # k => SessionListings'[i] = SessionListings[i]
                /\ SessionListings'[k].id = SessionListings[k].id
                /\ SessionListings'[k].is_active = SessionListings[k].is_active
                /\ SessionListings'[k].source = data.source
                /\ SessionListings'[k].source_id = data.source_id
                /\ SessionListings'[k].asking_price =
                       IF data.asking_price = NoKey
                         THEN SessionListings[k].asking_price
                         ELSE data.asking_price

\* C28: upsert_listing on a stored source_id overwrites only the fields that
\* are keys of the submitted record and leaves every other stored field, the
\* record's id and all other listings unchanged; a field the re-scrape omits
\* keeps its stored value rather than becoming null.
C28_UpsertOverwritesSubmittedOnly == [][C28_UpdateStep]_vars

\* a listing stored with a price was submitted again without one, and the
\* price is still stored
C28_Witness ==
    /\ rpc = "upsert"
    /\ last_upsert.existed
    /\ ~last_upsert.is_new
    /\ last_upsert.price_sent = NoKey
    /\ last_upsert.price_stored = 1000
    /\ Len(SessionListings) = 2

\* C29: the source selection of apply_filters never lets through a row of a
\* disabled source: whatever sources are enabled, none at all included, every
\* row of the result has an enabled source.
\* Violated: with every source disabled the list of active sources is empty,
\* the selection is not applied and the rows of all sources are returned.
C29_DisabledSourceExcluded ==
    apc = "done" /\ filters_dict.sources.present =>
        \A i \in DOMAIN filtered :
            filtered[i].source \in filters_dict.sources.value

\* C30: match_resort_to_reference never returns a reference whose normalised
\* name is empty, such as 'HGVC' or 'Hilton Grand Vacations Club': neither the
\* alias tier (100) nor the substring tier (95) matches it to any listing.
\* Violated: the empty string is in every string, so such a reference passes
\* `ref_norm in canonical` and `ref_norm in normalized`.
C30_EmptyReferenceNeverMatched ==
    mpc = "done" /\ match_result # NoMatch =>
        normalize_resort_name(match_result.ref) # ""

====
